---- MODULE Spec2Model ----
(***************************************************************************)
(* Model of the webpage analyzer: the HTML extraction passes               *)
(* (internal/parser/html.go), the worker pool and task group               *)
(* (internal/analyzer/worker_pool.go) and the analysis service             *)
(* (service.AnalyzeWebpage).                                               *)
(*                                                                         *)
(* A Go string that the code looks into is the sequence of its bytes       *)
(* (numbers 0..255), the UTF-8 encoding of its text, so that prefix,       *)
(* substring, escape and case-folding operations are computed on what the  *)
(* code reads: bytes in net/url, HasPrefix and Contains, runes decoded     *)
(* from the bytes in ToLower, EqualFold and TrimSpace.  A comment beside   *)
(* each literal shows its text.  A string the code only passes on (an      *)
(* error message, a request body, a task name) is a string.                *)
(***************************************************************************)
EXTENDS Integers, Sequences, FiniteSets, Bags, TLC

(***************************************************************************)
(* Go interface values: [type, v]; the nil interface has type "nil".       *)
(***************************************************************************)
Nil == [type |-> "nil", v |-> "nil"]

IsNil(x) == x.type = "nil"

\* An error value, here the AnalysisError a test task returns.
ErrorOf(name) == [type |-> "error", v |-> name]

\* A string result of a test task.
ResultOf(name) == [type |-> "string", v |-> name]

(***************************************************************************)
(* Package unicode/utf8.                                                   *)
(***************************************************************************)
\* utf8.RuneError, U+FFFD
RuneError == 65533

\* utf8.DecodeRuneInString(s[i-1:]) for a position i of s: [r, size].  A lead
\* byte selects the size and the range of the second byte; a byte that starts
\* no valid encoding is RuneError of size 1.
DecodeRune(s, i) ==
    LET invalid == [r |-> RuneError, size |-> 1]
        n  == Len(s) - i + 1
        s0 == s[i]
        s1 == s[i + 1]
        s2 == s[i + 2]
        s3 == s[i + 3]
        sz == IF s0 < 224 THEN 2 ELSE IF s0 < 240 THEN 3 ELSE 4
        lo == IF s0 = 224 THEN 160 ELSE IF s0 = 240 THEN 144 ELSE 128
        hi == IF s0 = 237 THEN 159 ELSE IF s0 = 244 THEN 143 ELSE 191
    IN  IF s0 < 128 THEN [r |-> s0, size |-> 1]
        ELSE IF s0 < 194 \/ s0 > 244 THEN invalid
        ELSE IF n < sz THEN invalid
        ELSE IF s1 < lo \/ hi < s1 THEN invalid
        ELSE IF sz = 2 THEN [r |-> (s0 % 32) * 64 + (s1 % 64), size |-> 2]
        ELSE IF s2 < 128 \/ 191 < s2 THEN invalid
        ELSE IF sz = 3 THEN [r |-> (s0 % 16) * 4096 + (s1 % 64) * 64 + (s2 % 64), size |-> 3]
        ELSE IF s3 < 128 \/ 191 < s3 THEN invalid
        ELSE [r |-> (s0 % 8) * 262144 + (s1 % 64) * 4096 + (s2 % 64) * 64 + (s3 % 64), size |-> 4]

\* utf8.DecodeLastRuneInString(s) for s not empty: [r, size].  The encoding
\* starts at the last byte among the three before the end that is not a
\* continuation byte, and must reach the end.
DecodeLastRune(s) ==
    LET invalid == [r |-> RuneError, size |-> 1]
        end     == Len(s)
        starts  == {k \in 1..(end - 1) : k >= end - 3 /\ (s[k] < 128 \/ 191 < s[k])}
        start   == CHOOSE k \in starts : \A j \in starts : j <= k
        d       == DecodeRune(s, start)
    IN  IF s[end] < 128 THEN [r |-> s[end], size |-> 1]
        ELSE IF starts = {} THEN invalid
        ELSE IF start + d.size - 1 # end THEN invalid
        ELSE d

\* utf8.AppendRune: the encoding of rune r.
EncodeRune(r) ==
    IF r < 128 THEN <<r>>
    ELSE IF r < 2048 THEN <<192 + (r \div 64), 128 + (r % 64)>>
    ELSE IF r > 1114111 \/ (55296 <= r /\ r <= 57343) THEN <<239, 191, 189>>
    ELSE IF r < 65536 THEN <<224 + (r \div 4096), 128 + ((r \div 64) % 64), 128 + (r % 64)>>
    ELSE <<240 + (r \div 262144), 128 + ((r \div 4096) % 64), 128 + ((r \div 64) % 64), 128 + (r % 64)>>

\* Every byte of s is below utf8.RuneSelf.
IsASCII(s) == \A i \in 1..Len(s) : s[i] < 128

\* for _, r := range s: the runes of s in order.
RECURSIVE RunesFrom(_, _)
RunesFrom(s, i) ==
    IF i > Len(s) THEN <<>>
    ELSE LET d == DecodeRune(s, i)
         IN  <<d.r>> \o RunesFrom(s, i + d.size)

Runes(s) == IF IsASCII(s) THEN s ELSE RunesFrom(s, 1)

\* The string of a sequence of runes: each rune written with WriteRune.
RECURSIVE EncodeRunes(_)
EncodeRunes(rs) == IF rs = <<>> THEN <<>> ELSE EncodeRune(Head(rs)) \o EncodeRunes(Tail(rs))

(***************************************************************************)
(* Package unicode (Unicode 15.0.0).                                       *)
(***************************************************************************)
\* The case mappings are tables of ranges <<Lo, Hi, Stride, Delta>>: a rune
\* r in Lo..Hi at a multiple of Stride from Lo maps to r + Delta.  RangeAt
\* is the set of the positions of the ranges that hold r (at most one).
RangeAt(r, ranges) ==
    {k \in 1..Len(ranges) :
        /\ ranges[k][1] <= r
        /\ r <= ranges[k][2]
        /\ (r - ranges[k][1]) % ranges[k][3] = 0}

\* The lower-case mapping of the runes from U+0080 (unicode.CaseRanges).
LowerCaseRanges ==
    <<
    <<192, 214, 1, 32>>, <<216, 222, 1, 32>>, <<256, 302, 2, 1>>, <<304, 304, 1, -199>>,
    <<306, 310, 2, 1>>, <<313, 327, 2, 1>>, <<330, 374, 2, 1>>, <<376, 376, 1, -121>>,
    <<377, 381, 2, 1>>, <<385, 385, 1, 210>>, <<386, 388, 2, 1>>, <<390, 390, 1, 206>>,
    <<391, 391, 1, 1>>, <<393, 394, 1, 205>>, <<395, 395, 1, 1>>, <<398, 398, 1, 79>>,
    <<399, 399, 1, 202>>, <<400, 400, 1, 203>>, <<401, 401, 1, 1>>, <<403, 403, 1, 205>>,
    <<404, 404, 1, 207>>, <<406, 406, 1, 211>>, <<407, 407, 1, 209>>, <<408, 408, 1, 1>>,
    <<412, 412, 1, 211>>, <<413, 413, 1, 213>>, <<415, 415, 1, 214>>, <<416, 420, 2, 1>>,
    <<422, 422, 1, 218>>, <<423, 423, 1, 1>>, <<425, 425, 1, 218>>, <<428, 428, 1, 1>>,
    <<430, 430, 1, 218>>, <<431, 431, 1, 1>>, <<433, 434, 1, 217>>, <<435, 437, 2, 1>>,
    <<439, 439, 1, 219>>, <<440, 440, 1, 1>>, <<444, 444, 1, 1>>, <<452, 452, 1, 2>>,
    <<453, 453, 1, 1>>, <<455, 455, 1, 2>>, <<456, 456, 1, 1>>, <<458, 458, 1, 2>>,
    <<459, 475, 2, 1>>, <<478, 494, 2, 1>>, <<497, 497, 1, 2>>, <<498, 500, 2, 1>>,
    <<502, 502, 1, -97>>, <<503, 503, 1, -56>>, <<504, 542, 2, 1>>, <<544, 544, 1, -130>>,
    <<546, 562, 2, 1>>, <<570, 570, 1, 10795>>, <<571, 571, 1, 1>>, <<573, 573, 1, -163>>,
    <<574, 574, 1, 10792>>, <<577, 577, 1, 1>>, <<579, 579, 1, -195>>, <<580, 580, 1, 69>>,
    <<581, 581, 1, 71>>, <<582, 590, 2, 1>>, <<880, 882, 2, 1>>, <<886, 886, 1, 1>>,
    <<895, 895, 1, 116>>, <<902, 902, 1, 38>>, <<904, 906, 1, 37>>, <<908, 908, 1, 64>>,
    <<910, 911, 1, 63>>, <<913, 929, 1, 32>>, <<931, 939, 1, 32>>, <<975, 975, 1, 8>>,
    <<984, 1006, 2, 1>>, <<1012, 1012, 1, -60>>, <<1015, 1015, 1, 1>>, <<1017, 1017, 1, -7>>,
    <<1018, 1018, 1, 1>>, <<1021, 1023, 1, -130>>, <<1024, 1039, 1, 80>>, <<1040, 1071, 1, 32>>,
    <<1120, 1152, 2, 1>>, <<1162, 1214, 2, 1>>, <<1216, 1216, 1, 15>>, <<1217, 1229, 2, 1>>,
    <<1232, 1326, 2, 1>>, <<1329, 1366, 1, 48>>, <<4256, 4293, 1, 7264>>, <<4295, 4295, 1, 7264>>,
    <<4301, 4301, 1, 7264>>, <<5024, 5103, 1, 38864>>, <<5104, 5109, 1, 8>>,
    <<7312, 7354, 1, -3008>>, <<7357, 7359, 1, -3008>>, <<7680, 7828, 2, 1>>,
    <<7838, 7838, 1, -7615>>, <<7840, 7934, 2, 1>>, <<7944, 7951, 1, -8>>, <<7960, 7965, 1, -8>>,
    <<7976, 7983, 1, -8>>, <<7992, 7999, 1, -8>>, <<8008, 8013, 1, -8>>, <<8025, 8031, 2, -8>>,
    <<8040, 8047, 1, -8>>, <<8072, 8079, 1, -8>>, <<8088, 8095, 1, -8>>, <<8104, 8111, 1, -8>>,
    <<8120, 8121, 1, -8>>, <<8122, 8123, 1, -74>>, <<8124, 8124, 1, -9>>, <<8136, 8139, 1, -86>>,
    <<8140, 8140, 1, -9>>, <<8152, 8153, 1, -8>>, <<8154, 8155, 1, -100>>, <<8168, 8169, 1, -8>>,
    <<8170, 8171, 1, -112>>, <<8172, 8172, 1, -7>>, <<8184, 8185, 1, -128>>,
    <<8186, 8187, 1, -126>>, <<8188, 8188, 1, -9>>, <<8486, 8486, 1, -7517>>,
    <<8490, 8490, 1, -8383>>, <<8491, 8491, 1, -8262>>, <<8498, 8498, 1, 28>>,
    <<8544, 8559, 1, 16>>, <<8579, 8579, 1, 1>>, <<9398, 9423, 1, 26>>, <<11264, 11311, 1, 48>>,
    <<11360, 11360, 1, 1>>, <<11362, 11362, 1, -10743>>, <<11363, 11363, 1, -3814>>,
    <<11364, 11364, 1, -10727>>, <<11367, 11371, 2, 1>>, <<11373, 11373, 1, -10780>>,
    <<11374, 11374, 1, -10749>>, <<11375, 11375, 1, -10783>>, <<11376, 11376, 1, -10782>>,
    <<11378, 11378, 1, 1>>, <<11381, 11381, 1, 1>>, <<11390, 11391, 1, -10815>>,
    <<11392, 11490, 2, 1>>, <<11499, 11501, 2, 1>>, <<11506, 11506, 1, 1>>, <<42560, 42604, 2, 1>>,
    <<42624, 42650, 2, 1>>, <<42786, 42798, 2, 1>>, <<42802, 42862, 2, 1>>, <<42873, 42875, 2, 1>>,
    <<42877, 42877, 1, -35332>>, <<42878, 42886, 2, 1>>, <<42891, 42891, 1, 1>>,
    <<42893, 42893, 1, -42280>>, <<42896, 42898, 2, 1>>, <<42902, 42920, 2, 1>>,
    <<42922, 42922, 1, -42308>>, <<42923, 42923, 1, -42319>>, <<42924, 42924, 1, -42315>>,
    <<42925, 42925, 1, -42305>>, <<42926, 42926, 1, -42308>>, <<42928, 42928, 1, -42258>>,
    <<42929, 42929, 1, -42282>>, <<42930, 42930, 1, -42261>>, <<42931, 42931, 1, 928>>,
    <<42932, 42946, 2, 1>>, <<42948, 42948, 1, -48>>, <<42949, 42949, 1, -42307>>,
    <<42950, 42950, 1, -35384>>, <<42951, 42953, 2, 1>>, <<42960, 42960, 1, 1>>,
    <<42966, 42968, 2, 1>>, <<42997, 42997, 1, 1>>, <<65313, 65338, 1, 32>>,
    <<66560, 66599, 1, 40>>, <<66736, 66771, 1, 40>>, <<66928, 66938, 1, 39>>,
    <<66940, 66954, 1, 39>>, <<66956, 66962, 1, 39>>, <<66964, 66965, 1, 39>>,
    <<68736, 68786, 1, 64>>, <<71840, 71871, 1, 32>>, <<93760, 93791, 1, 32>>,
    <<125184, 125217, 1, 34>>
    >>

\* unicode.ToLower
unicodeToLower(r) ==
    IF r < 128 THEN (IF 65 <= r /\ r <= 90 THEN r + 32 ELSE r)
    ELSE IF RangeAt(r, LowerCaseRanges) = {} THEN r
    ELSE r + LowerCaseRanges[CHOOSE k \in RangeAt(r, LowerCaseRanges) : TRUE][4]

\* The runes from U+0080 whose simple case folding is not their lower case
\* (unicode.caseOrbit): the Cherokee letters fold to upper case, U+0130 to
\* itself, and a rune such as U+00B5, U+017F or U+03C2 to the small letter of
\* its orbit.
FoldRanges ==
    <<
    <<181, 181, 1, 775>>, <<304, 304, 1, 0>>, <<383, 383, 1, -268>>, <<837, 837, 1, 116>>,
    <<962, 962, 1, 1>>, <<976, 976, 1, -30>>, <<977, 977, 1, -25>>, <<981, 981, 1, -15>>,
    <<982, 982, 1, -22>>, <<1008, 1008, 1, -54>>, <<1009, 1009, 1, -48>>, <<1013, 1013, 1, -64>>,
    <<5024, 5109, 1, 0>>, <<5112, 5117, 1, -8>>, <<7296, 7296, 1, -6222>>,
    <<7297, 7297, 1, -6221>>, <<7298, 7298, 1, -6212>>, <<7299, 7300, 1, -6210>>,
    <<7301, 7301, 1, -6211>>, <<7302, 7302, 1, -6204>>, <<7303, 7303, 1, -6180>>,
    <<7304, 7304, 1, 35267>>, <<7835, 7835, 1, -58>>, <<8126, 8126, 1, -7173>>,
    <<43888, 43967, 1, -38864>>
    >>

\* One rune for each orbit of unicode.SimpleFold: two runes are in one orbit
\* exactly if they have the same caseFold.
caseFold(r) ==
    IF r < 128 \/ RangeAt(r, FoldRanges) = {} THEN unicodeToLower(r)
    ELSE r + FoldRanges[CHOOSE k \in RangeAt(r, FoldRanges) : TRUE][4]

\* unicode.IsSpace: '\t', '\n', '\v', '\f', '\r', ' ', U+0085, U+00A0 and the
\* other runes with the property White_Space.
IsSpace(r) ==
    \/ 9 <= r /\ r <= 13
    \/ r \in {32, 133, 160, 5760, 8232, 8233, 8239, 8287, 12288}
    \/ 8192 <= r /\ r <= 8202

(***************************************************************************)
(* Package strings.                                                        *)
(***************************************************************************)
\* strings.ToLower: an ASCII string byte by byte; any other string is
\* strings.Map(unicode.ToLower, s), which writes each rune anew, a byte that
\* is no valid encoding as U+FFFD.
ToLower(s) ==
    IF IsASCII(s)
    THEN [i \in 1..Len(s) |-> IF 65 <= s[i] /\ s[i] <= 90 THEN s[i] + 32 ELSE s[i]]
    ELSE LET runes == Runes(s)
         IN  EncodeRunes([i \in 1..Len(runes) |-> unicodeToLower(runes[i])])

\* strings.HasPrefix
HasPrefix(s, prefix) ==
    Len(s) >= Len(prefix) /\ SubSeq(s, 1, Len(prefix)) = prefix

\* strings.HasSuffix
HasSuffix(s, suffix) ==
    Len(s) >= Len(suffix) /\ SubSeq(s, Len(s) - Len(suffix) + 1, Len(s)) = suffix

\* strings.Contains
Contains(s, substr) ==
    \E i \in 0..(Len(s) - Len(substr)) : SubSeq(s, i + 1, i + Len(substr)) = substr

\* strings.EqualFold: the strings have as many runes and, rune for rune, the
\* two are in one orbit of unicode.SimpleFold.  A byte that is no valid
\* encoding reads as U+FFFD in either string.
EqualFold(s, t) ==
    LET sr == Runes(s)
        tr == Runes(t)
    IN  /\ Len(sr) = Len(tr)
        /\ \A i \in 1..Len(sr) : caseFold(sr[i]) = caseFold(tr[i])

\* strings.IndexByte: 0 when absent, else the 1-based position.
IndexChar(s, ch) ==
    IF \E i \in 1..Len(s) : s[i] = ch
    THEN CHOOSE i \in 1..Len(s) : s[i] = ch /\ \A j \in 1..(i - 1) : s[j] # ch
    ELSE 0

\* strings.LastIndex of a single byte: 0 when absent.
LastIndexChar(s, ch) ==
    IF \E i \in 1..Len(s) : s[i] = ch
    THEN CHOOSE i \in 1..Len(s) : s[i] = ch /\ \A j \in (i + 1)..Len(s) : s[j] # ch
    ELSE 0

\* strings.Index: 0 when substr is absent, else the 1-based position of its
\* first occurrence.
Index(s, substr) ==
    IF Contains(s, substr)
    THEN CHOOSE i \in 1..(Len(s) - Len(substr) + 1) :
             /\ SubSeq(s, i, i + Len(substr) - 1) = substr
             /\ \A j \in 1..(i - 1) : SubSeq(s, j, j + Len(substr) - 1) # substr
    ELSE 0

\* strings.TrimLeftFunc(s, unicode.IsSpace)
RECURSIVE TrimLeftSpace(_)
TrimLeftSpace(s) ==
    IF s = <<>> THEN s
    ELSE IF IsSpace(DecodeRune(s, 1).r)
         THEN TrimLeftSpace(SubSeq(s, DecodeRune(s, 1).size + 1, Len(s)))
    ELSE s

\* strings.TrimRightFunc(s, unicode.IsSpace)
RECURSIVE TrimRightSpace(_)
TrimRightSpace(s) ==
    IF s = <<>> THEN s
    ELSE IF IsSpace(DecodeLastRune(s).r)
         THEN TrimRightSpace(SubSeq(s, 1, Len(s) - DecodeLastRune(s).size))
    ELSE s

\* strings.TrimSpace: the white space of unicode.IsSpace is cut off at both
\* ends (the loops over ASCII bytes that come first cut the same).
TrimSpace(s) == TrimRightSpace(TrimLeftSpace(s))

\* True when some element of the list of patterns occurs in s.
ContainsAny(s, patterns) == \E k \in 1..Len(patterns) : Contains(s, patterns[k])


(***************************************************************************)
(* Package net/url (standard library), as far as isSameDomain uses it:     *)
(* url.Parse's error result, URL.Scheme and URL.Hostname().                *)
(***************************************************************************)
\* '0'..'9'
DigitChars == 48..57

\* 'A'..'Z' and 'a'..'z'
LetterChars == (65..90) \cup (97..122)

\* stringContainsCTLByte: some byte of s is below 0x20 or is 0x7f.
stringContainsCTLByte(s) == \E i \in 1..Len(s) : s[i] < 32 \/ s[i] = 127

\* ishex
ishex(c) ==
    \/ 48 (* '0' *) <= c /\ c <= 57 (* '9' *)
    \/ 97 (* 'a' *) <= c /\ c <= 102 (* 'f' *)
    \/ 65 (* 'A' *) <= c /\ c <= 70 (* 'F' *)

\* unhex: the value of a hex digit, 0 for any other byte.
unhex(c) ==
    IF 48 (* '0' *) <= c /\ c <= 57 (* '9' *) THEN c - 48 (* '0' *)
    ELSE IF 97 (* 'a' *) <= c /\ c <= 102 (* 'f' *) THEN c - 97 (* 'a' *) + 10
    ELSE IF 65 (* 'A' *) <= c /\ c <= 70 (* 'F' *) THEN c - 65 (* 'A' *) + 10
    ELSE 0

\* unhex(s[i+1])<<4 | unhex(s[i+2]): the byte an escape stands for.
EscapedChar(hi, lo) == unhex(hi) * 16 + unhex(lo)

\* strings.Cut(s, ch): the text before the first ch, or all of s.
CutBefore(s, ch) == IF IndexChar(s, ch) = 0 THEN s ELSE SubSeq(s, 1, IndexChar(s, ch) - 1)

\* strings.Cut(s, ch): the text after the first ch, or "".
CutAfter(s, ch) == IF IndexChar(s, ch) = 0 THEN <<>> ELSE SubSeq(s, IndexChar(s, ch) + 1, Len(s))

\* getScheme: the position of the ':' that ends a scheme, 0 when rawURL has
\* no scheme, -1 for the error "missing protocol scheme".
RECURSIVE getSchemeFrom(_, _)
getSchemeFrom(rawURL, i) ==
    IF i > Len(rawURL) THEN 0
    ELSE IF rawURL[i] \in LetterChars THEN getSchemeFrom(rawURL, i + 1)
    ELSE IF rawURL[i] \in DigitChars \cup {43 (* '+' *), 45 (* '-' *), 46 (* '.' *)}
         THEN (IF i = 1 THEN 0 ELSE getSchemeFrom(rawURL, i + 1))
    ELSE IF rawURL[i] = 58 (* ':' *) THEN (IF i = 1 THEN -1 ELSE i)
    ELSE 0

getScheme(rawURL) == getSchemeFrom(rawURL, 1)

\* validOptionalPort
validOptionalPort(port) ==
    \/ port = <<>>
    \/ /\ port[1] = 58 (* ':' *)
       /\ \A i \in 2..Len(port) : port[i] \in DigitChars

\* shouldEscape(c, mode) for mode encodeHost or encodeZone: letters, digits,
\* the sub-delims and brackets a host may hold, and the unreserved marks need
\* no escape.
shouldEscape(c, mode) ==
    ~ \/ c \in LetterChars \cup DigitChars
      \/ /\ mode \in {"encodeHost", "encodeZone"}
         /\ c \in {33 (* '!' *), 36 (* '$' *), 38 (* '&' *), 39 (* '\'' *), 40 (* '(' *), 41 (* ')' *), 42 (* '*' *), 43 (* '+' *), 44 (* ',' *), 59 (* ';' *), 61 (* '=' *), 58 (* ':' *), 91 (* '[' *), 93 (* ']' *),
                 60 (* '<' *), 62 (* '>' *), 34 (* '"' *)}
      \/ c \in {45 (* '-' *), 95 (* '_' *), 46 (* '.' *), 126 (* '~' *)}

\* unescape's first pass: TRUE when unescape(s, mode) returns an error.  Every
\* '%' must start an escape of two hex digits; a host may escape only %25 and
\* bytes from 0x80, a zone only %25, the space and the bytes a host may hold
\* unescaped; an unescaped ASCII byte of a host or zone must need no escape.
unescapeFails(s, mode) ==
    \E i \in 1..Len(s) :
        IF s[i] = 37 (* '%' *)
        THEN \/ i + 2 > Len(s)
             \/ ~ishex(s[i + 1])
             \/ ~ishex(s[i + 2])
             \/ /\ mode = "encodeHost"
                /\ unhex(s[i + 1]) < 8
                /\ SubSeq(s, i, i + 2) # <<37, 50, 53>> (* "%25" *)
             \/ /\ mode = "encodeZone"
                /\ SubSeq(s, i, i + 2) # <<37, 50, 53>> (* "%25" *)
                /\ EscapedChar(s[i + 1], s[i + 2]) # 32 (* ' ' *)
                /\ shouldEscape(EscapedChar(s[i + 1], s[i + 2]), "encodeHost")
        ELSE /\ mode \in {"encodeHost", "encodeZone"}
             /\ s[i] # 43 (* '+' *)
             /\ s[i] < 128
             /\ shouldEscape(s[i], "encodeHost")

\* unescape's second pass, for a mode other than encodeQueryComponent: every
\* escape becomes the byte it writes.
RECURSIVE unescapeFrom(_, _)
unescapeFrom(s, i) ==
    IF i > Len(s) THEN <<>>
    ELSE IF s[i] = 37 (* '%' *)
         THEN <<EscapedChar(s[i + 1], s[i + 2])>> \o unescapeFrom(s, i + 3)
    ELSE <<s[i]>> \o unescapeFrom(s, i + 1)

\* unescape: [err, text]
unescape(s, mode) ==
    IF unescapeFails(s, mode)
    THEN [err |-> TRUE, text |-> <<>>]
    ELSE [err |-> FALSE, text |-> unescapeFrom(s, 1)]

\* validUserinfo
validUserinfo(s) ==
    \A i \in 1..Len(s) :
        \/ s[i] \in LetterChars \cup DigitChars
        \/ s[i] \in {45 (* '-' *), 46 (* '.' *), 95 (* '_' *), 58 (* ':' *), 126 (* '~' *), 33 (* '!' *), 36 (* '$' *), 38 (* '&' *), 39 (* '\'' *), 40 (* '(' *), 41 (* ')' *), 42 (* '*' *), 43 (* '+' *), 44 (* ',' *),
                    59 (* ';' *), 61 (* '=' *), 37 (* '%' *), 64 (* '@' *)}

\* parseHost: [err, host].  In an IP literal, %25 starts the zone identifier
\* (RFC 6874), which unescapes in its own mode.
parseHost(host) ==
    LET failed  == [err |-> TRUE, host |-> <<>>]
        i       == LastIndexChar(host, 93 (* ']' *))
        zone    == Index(SubSeq(host, 1, i - 1), <<37, 50, 53>> (* "%25" *))
        host1   == unescape(SubSeq(host, 1, zone - 1), "encodeHost")
        host2   == unescape(SubSeq(host, zone, i - 1), "encodeZone")
        host3   == unescape(SubSeq(host, i, Len(host)), "encodeHost")
        whole   == unescape(host, "encodeHost")
        generic == IF whole.err THEN failed ELSE [err |-> FALSE, host |-> whole.text]
        colon   == LastIndexChar(host, 58 (* ':' *))
    IN  IF HasPrefix(host, <<91>> (* "[" *))
        THEN (IF i = 0 THEN failed
              ELSE IF ~validOptionalPort(SubSeq(host, i + 1, Len(host))) THEN failed
              ELSE IF zone # 0
                   THEN (IF host1.err \/ host2.err \/ host3.err THEN failed
                         ELSE [err |-> FALSE, host |-> host1.text \o host2.text \o host3.text])
              ELSE generic)
        ELSE IF colon # 0 /\ ~validOptionalPort(SubSeq(host, colon, Len(host))) THEN failed
        ELSE generic

\* parseAuthority: [err, host]
parseAuthority(authority) ==
    LET i == LastIndexChar(authority, 64 (* '@' *))
        h == parseHost(SubSeq(authority, i + 1, Len(authority)))
    IN  IF h.err THEN h
        ELSE IF i = 0 THEN h
        ELSE IF \/ ~validUserinfo(SubSeq(authority, 1, i - 1))
                \/ unescapeFails(SubSeq(authority, 1, i - 1), "encodeUserPassword")
             THEN [err |-> TRUE, host |-> <<>>]
        ELSE h

\* url.Parse: [err, Scheme, Host].
urlParse(rawURL) ==
    LET failed  == [err |-> TRUE, Scheme |-> <<>>, Host |-> <<>>]
        u       == CutBefore(rawURL, 35 (* '#' *))
        frag    == CutAfter(rawURL, 35 (* '#' *))
        colon   == getScheme(u)
        scheme  == IF colon > 0 THEN ToLower(SubSeq(u, 1, colon - 1)) ELSE <<>>
        afterSc == IF colon > 0 THEN SubSeq(u, colon + 1, Len(u)) ELSE u
        rest    == CutBefore(afterSc, 63 (* '?' *))
        auth    == CutBefore(SubSeq(rest, 3, Len(rest)), 47 (* '/' *))
        path    == IF HasPrefix(rest, <<47, 47>> (* "//" *)) /\ (scheme # <<>> \/ ~HasPrefix(rest, <<47, 47, 47>> (* "///" *)))
                   THEN SubSeq(rest, 2 + Len(auth) + 1, Len(rest))
                   ELSE rest
        a       == parseAuthority(auth)
    IN  IF stringContainsCTLByte(u) THEN failed
        ELSE IF u = <<42>> (* "*" *) THEN [err |-> unescapeFails(frag, "encodeFragment"), Scheme |-> <<>>, Host |-> <<>>]
        ELSE IF colon = -1 THEN failed
        ELSE IF ~HasPrefix(rest, <<47>> (* "/" *)) /\ scheme # <<>>
             THEN [err |-> unescapeFails(frag, "encodeFragment"), Scheme |-> scheme, Host |-> <<>>]
        ELSE IF ~HasPrefix(rest, <<47>> (* "/" *)) /\ Contains(CutBefore(rest, 47 (* '/' *)), <<58>> (* ":" *)) THEN failed
        ELSE IF HasPrefix(rest, <<47, 47>> (* "//" *)) /\ (scheme # <<>> \/ ~HasPrefix(rest, <<47, 47, 47>> (* "///" *)))
             THEN (IF a.err \/ unescapeFails(path, "encodePath") \/ unescapeFails(frag, "encodeFragment")
                   THEN failed
                   ELSE [err |-> FALSE, Scheme |-> scheme, Host |-> a.host])
        ELSE [err |-> unescapeFails(path, "encodePath") \/ unescapeFails(frag, "encodeFragment"),
              Scheme |-> scheme, Host |-> <<>>]

\* URL.Hostname(): the host without a valid port and without IPv6 brackets.
Hostname(host) ==
    LET colon  == LastIndexChar(host, 58 (* ':' *))
        noPort == IF colon # 0 /\ validOptionalPort(SubSeq(host, colon, Len(host)))
                  THEN SubSeq(host, 1, colon - 1)
                  ELSE host
    IN  IF HasPrefix(noPort, <<91>> (* "[" *)) /\ HasSuffix(noPort, <<93>> (* "]" *))
        THEN SubSeq(noPort, 2, Len(noPort) - 1)
        ELSE noPort


(***************************************************************************)
(* The parsed document (golang.org/x/net/html Node tree).  A document is   *)
(* a sequence of nodes in document order; node 1 is the DocumentNode and   *)
(* Parent is the position of the parent node (0 for node 1).  A node is    *)
(* [Type, Data, Attr, Parent], Attr a sequence of [Key, Val].  A handle    *)
(* that is not a *html.Node is the value NotANode.                         *)
(***************************************************************************)
NotANode == <<>>

\* n.FirstChild, c.NextSibling, ...: the children of node n in order.
RECURSIVE KidsFrom(_, _, _)
KidsFrom(doc, n, i) ==
    IF i > Len(doc) THEN <<>>
    ELSE IF doc[i].Parent = n THEN <<i>> \o KidsFrom(doc, n, i + 1)
    ELSE KidsFrom(doc, n, i + 1)

Kids(doc, n) == KidsFrom(doc, n, n + 1)

\* toHTMLNode: the type assertion doc.(*html.Node) succeeds.
toHTMLNode(doc) == doc # NotANode

defaultHTMLVersion == <<72, 84, 77, 76, 53, 32, 40, 105, 109, 112, 108, 105, 101, 100, 41>> (* "HTML5 (implied)" *)

\* parseDoctype
parseDoctype(node) ==
    IF Len(node.Attr) = 0 THEN defaultHTMLVersion
    ELSE LET doctype == ToLower(node.Attr[1].Val)
         IN  IF Contains(doctype, <<104, 116, 109, 108, 53>> (* "html5" *)) \/ Contains(doctype, <<104, 116, 109, 108, 32, 53>> (* "html 5" *)) THEN <<72, 84, 77, 76, 53>> (* "HTML5" *)
             ELSE IF Contains(doctype, <<104, 116, 109, 108, 52>> (* "html4" *)) \/ Contains(doctype, <<104, 116, 109, 108, 32, 52>> (* "html 4" *)) THEN <<72, 84, 77, 76, 52>> (* "HTML4" *)
             ELSE IF Contains(doctype, <<120, 104, 116, 109, 108>> (* "xhtml" *)) THEN <<88, 72, 84, 77, 76>> (* "XHTML" *)
             ELSE node.Attr[1].Val

\* findDoctype and its loop over the children (first non-empty result).
RECURSIVE findDoctype(_, _), findDoctypeKids(_, _)
findDoctype(doc, n) ==
    IF doc[n].Type = "DoctypeNode" THEN parseDoctype(doc[n])
    ELSE findDoctypeKids(doc, Kids(doc, n))

findDoctypeKids(doc, kids) ==
    IF kids = <<>> THEN <<>>
    ELSE LET result == findDoctype(doc, Head(kids))
         IN  IF result # <<>> THEN result ELSE findDoctypeKids(doc, Tail(kids))

\* ExtractHTMLVersion
ExtractHTMLVersion(doc) ==
    IF ~toHTMLNode(doc) THEN defaultHTMLVersion
    ELSE IF findDoctype(doc, 1) = <<>> THEN defaultHTMLVersion
    ELSE findDoctype(doc, 1)

\* isTitleElement
isTitleElement(node) == node.Type = "ElementNode" /\ EqualFold(node.Data, <<116, 105, 116, 108, 101>> (* "title" *))

\* extractTitleText: the trimmed text of the first child when it is a text node.
extractTitleText(doc, n) ==
    IF Kids(doc, n) # <<>> /\ doc[Head(Kids(doc, n))].Type = "TextNode"
    THEN TrimSpace(doc[Head(Kids(doc, n))].Data)
    ELSE <<>>

\* findTitle and its loop over the children (first non-empty result).
RECURSIVE findTitle(_, _), findTitleKids(_, _)
findTitle(doc, n) ==
    IF isTitleElement(doc[n]) THEN extractTitleText(doc, n)
    ELSE findTitleKids(doc, Kids(doc, n))

findTitleKids(doc, kids) ==
    IF kids = <<>> THEN <<>>
    ELSE LET result == findTitle(doc, Head(kids))
         IN  IF result # <<>> THEN result ELSE findTitleKids(doc, Tail(kids))

\* ExtractPageTitle
ExtractPageTitle(doc) == IF ~toHTMLNode(doc) THEN <<>> ELSE findTitle(doc, 1)

\* isHeadingElement
isHeadingElement(node) ==
    /\ node.Type = "ElementNode"
    /\ ToLower(node.Data) \in {<<104, 49>> (* "h1" *), <<104, 50>> (* "h2" *), <<104, 51>> (* "h3" *), <<104, 52>> (* "h4" *), <<104, 53>> (* "h5" *), <<104, 54>> (* "h6" *)}

\* headings[key]++ on a Go map (a missing key counts from zero).
MapIncr(m, key) ==
    IF key \in DOMAIN m THEN [m EXCEPT ![key] = @ + 1] ELSE (key :> 1) @@ m

\* The empty Go map, make(map[string]int).
EmptyMap == [key \in {} |-> 0]

\* countHeadings and its loop over the children; returns the updated map.
RECURSIVE countHeadings(_, _, _), countHeadingsKids(_, _, _)
countHeadings(doc, n, headings) ==
    countHeadingsKids(doc, Kids(doc, n),
                      IF isHeadingElement(doc[n]) THEN MapIncr(headings, doc[n].Data) ELSE headings)

countHeadingsKids(doc, kids, headings) ==
    IF kids = <<>> THEN headings
    ELSE countHeadingsKids(doc, Tail(kids), countHeadings(doc, Head(kids), headings))

\* ExtractHeadings
ExtractHeadings(doc) == IF ~toHTMLNode(doc) THEN EmptyMap ELSE countHeadings(doc, 1, EmptyMap)

\* isLinkElement
isLinkElement(node) == node.Type = "ElementNode" /\ EqualFold(node.Data, <<97>> (* "a" *))

\* getHrefAttribute: the value of the first attribute whose key folds to href.
RECURSIVE getHrefAttributeFrom(_, _)
getHrefAttributeFrom(attr, i) ==
    IF i > Len(attr) THEN <<>>
    ELSE IF EqualFold(attr[i].Key, <<104, 114, 101, 102>> (* "href" *)) THEN attr[i].Val
    ELSE getHrefAttributeFrom(attr, i + 1)

getHrefAttribute(node) == getHrefAttributeFrom(node.Attr, 1)

\* isValidLink as it would be if javascript: were looked for in lower case
\* only.
isValidLinkCaseSensitive(href) == href # <<>> /\ ~HasPrefix(href, <<106, 97, 118, 97, 115, 99, 114, 105, 112, 116, 58>> (* "javascript:" *))

\* isValidLink
isValidLink(href) == href # <<>> /\ ~HasPrefix(ToLower(href), <<106, 97, 118, 97, 115, 99, 114, 105, 112, 116, 58>> (* "javascript:" *))

\* isAbsoluteURL as it would be if one leading slash made a URL absolute.
isAbsoluteURLSingleSlash(href) ==
    \/ HasPrefix(ToLower(href), <<104, 116, 116, 112, 58, 47, 47>> (* "http://" *))
    \/ HasPrefix(ToLower(href), <<104, 116, 116, 112, 115, 58, 47, 47>> (* "https://" *))
    \/ HasPrefix(ToLower(href), <<102, 116, 112, 58, 47, 47>> (* "ftp://" *))
    \/ HasPrefix(href, <<47>> (* "/" *))

\* isAbsoluteURL
isAbsoluteURL(href) ==
    \/ HasPrefix(ToLower(href), <<104, 116, 116, 112, 58, 47, 47>> (* "http://" *))
    \/ HasPrefix(ToLower(href), <<104, 116, 116, 112, 115, 58, 47, 47>> (* "https://" *))
    \/ HasPrefix(ToLower(href), <<102, 116, 112, 58, 47, 47>> (* "ftp://" *))
    \/ HasPrefix(href, <<47, 47>> (* "//" *))

\* isSpecialProtocol
isSpecialProtocol(href) ==
    \/ HasPrefix(ToLower(href), <<109, 97, 105, 108, 116, 111, 58>> (* "mailto:" *))
    \/ HasPrefix(ToLower(href), <<116, 101, 108, 58>> (* "tel:" *))
    \/ HasPrefix(ToLower(href), <<102, 116, 112, 58, 47, 47>> (* "ftp://" *))

\* isSameDomain
isSameDomain(href, baseURL) ==
    LET base     == urlParse(baseURL)
        resolved == IF HasPrefix(href, <<47, 47>> (* "//" *)) THEN base.Scheme \o <<58>> (* ":" *) \o href ELSE href
        hrefURL  == urlParse(resolved)
    IN  IF HasPrefix(href, <<47, 47>> (* "//" *)) /\ base.err THEN FALSE
        ELSE IF hrefURL.err THEN FALSE
        ELSE IF base.err THEN FALSE
        ELSE EqualFold(Hostname(hrefURL.Host), Hostname(base.Host))

\* The three counters of ExtractLinks.
ZeroCounts == [internal |-> 0, external |-> 0, inaccessible |-> 0]

\* categorizeLink; returns the updated counters.
categorizeLink(href, baseURL, counts) ==
    IF ~isAbsoluteURL(href) THEN [counts EXCEPT !.internal = @ + 1]
    ELSE IF isSpecialProtocol(href) THEN [counts EXCEPT !.external = @ + 1]
    ELSE IF isSameDomain(href, baseURL) THEN [counts EXCEPT !.internal = @ + 1]
    ELSE [counts EXCEPT !.external = @ + 1]

\* processLink as it would be if an invalid link were skipped instead of
\* counted as inaccessible.
processLinkSkipsInvalid(node, baseURL, counts) ==
    LET href == getHrefAttribute(node)
    IN  IF href = <<>> THEN [counts EXCEPT !.inaccessible = @ + 1]
        ELSE IF ~isValidLink(href) THEN counts
        ELSE categorizeLink(href, baseURL, counts)

\* processLink; returns the updated counters.
processLink(node, baseURL, counts) ==
    LET href == getHrefAttribute(node)
    IN  IF href = <<>> THEN [counts EXCEPT !.inaccessible = @ + 1]
        ELSE IF ~isValidLink(href) THEN [counts EXCEPT !.inaccessible = @ + 1]
        ELSE categorizeLink(href, baseURL, counts)

\* analyzeLinks and its loop over the children; returns the updated counters.
RECURSIVE analyzeLinks(_, _, _, _), analyzeLinksKids(_, _, _, _)
analyzeLinks(doc, n, baseURL, counts) ==
    analyzeLinksKids(doc, Kids(doc, n), baseURL,
                     IF isLinkElement(doc[n]) THEN processLink(doc[n], baseURL, counts) ELSE counts)

analyzeLinksKids(doc, kids, baseURL, counts) ==
    IF kids = <<>> THEN counts
    ELSE analyzeLinksKids(doc, Tail(kids), baseURL, analyzeLinks(doc, Head(kids), baseURL, counts))

\* ExtractLinks
ExtractLinks(doc, baseURL) ==
    IF ~toHTMLNode(doc) THEN ZeroCounts ELSE analyzeLinks(doc, 1, baseURL, ZeroCounts)


\* extractText and its loop over the children: the text nodes of the subtree
\* of n, concatenated in document order.
RECURSIVE extractText(_, _), extractTextKids(_, _)
extractText(doc, n) ==
    (IF doc[n].Type = "TextNode" THEN doc[n].Data ELSE <<>>) \o extractTextKids(doc, Kids(doc, n))

extractTextKids(doc, kids) ==
    IF kids = <<>> THEN <<>>
    ELSE extractText(doc, Head(kids)) \o extractTextKids(doc, Tail(kids))

\* getNodeText
getNodeText(doc, n) == extractText(doc, n)

\* isFormElement
isFormElement(node) == node.Type = "ElementNode" /\ EqualFold(node.Data, <<102, 111, 114, 109>> (* "form" *))

\* isInputElement
isInputElement(node) == node.Type = "ElementNode" /\ EqualFold(node.Data, <<105, 110, 112, 117, 116>> (* "input" *))

\* hasInputWithType and its loop over the children.
RECURSIVE hasInputWithType(_, _, _)
hasInputWithType(doc, n, inputType) ==
    \/ /\ isInputElement(doc[n])
       /\ \E i \in 1..Len(doc[n].Attr) :
              EqualFold(doc[n].Attr[i].Key, <<116, 121, 112, 101>> (* "type" *)) /\ EqualFold(doc[n].Attr[i].Val, inputType)
    \/ LET kids == Kids(doc, n) IN \E k \in 1..Len(kids) : hasInputWithType(doc, kids[k], inputType)

\* hasPasswordInput
hasPasswordInput(doc, n) == hasInputWithType(doc, n, <<112, 97, 115, 115, 119, 111, 114, 100>> (* "password" *))

\* containsLoginPattern
containsLoginPattern(s) ==
    ContainsAny(s, << <<108, 111, 103, 105, 110>> (* "login" *), <<115, 105, 103, 110, 105, 110>> (* "signin" *), <<115, 105, 103, 110, 95, 105, 110>> (* "sign_in" *), <<115, 105, 103, 110, 45, 105, 110>> (* "sign-in" *),
                      <<97, 117, 116, 104, 101, 110, 116, 105, 99, 97, 116, 101>> (* "authenticate" *), <<97, 117, 116, 104>> (* "auth" *), <<97, 117, 116, 104, 101, 110, 116, 105, 99, 97, 116, 105, 111, 110>> (* "authentication" *),
                      <<108, 111, 103, 111, 110>> (* "logon" *), <<115, 105, 103, 110, 111, 110>> (* "signon" *), <<115, 105, 103, 110, 95, 111, 110>> (* "sign_on" *), <<115, 105, 103, 110, 45, 111, 110>> (* "sign-on" *) >>)

\* hasLoginPattern: the form's own action, id, name and class attributes.
hasLoginPattern(node) ==
    \E i \in 1..Len(node.Attr) :
        /\ ToLower(node.Attr[i].Key) \in {<<97, 99, 116, 105, 111, 110>> (* "action" *), <<105, 100>> (* "id" *), <<110, 97, 109, 101>> (* "name" *), <<99, 108, 97, 115, 115>> (* "class" *)}
        /\ containsLoginPattern(ToLower(node.Attr[i].Val))

\* hasAuthAttributes: the form's own attributes.
hasAuthAttributes(node) ==
    \E i \in 1..Len(node.Attr) :
        \/ ContainsAny(ToLower(node.Attr[i].Key), << <<97, 117, 116, 111, 99, 111, 109, 112, 108, 101, 116, 101>> (* "autocomplete" *), <<100, 97, 116, 97, 45, 97, 117, 116, 104>> (* "data-auth" *), <<100, 97, 116, 97, 45, 108, 111, 103, 105, 110>> (* "data-login" *) >>)
        \/ /\ ToLower(node.Attr[i].Key) = <<97, 117, 116, 111, 99, 111, 109, 112, 108, 101, 116, 101>> (* "autocomplete" *)
           /\ ContainsAny(ToLower(node.Attr[i].Val),
                          << <<117, 115, 101, 114, 110, 97, 109, 101>> (* "username" *), <<99, 117, 114, 114, 101, 110, 116, 45, 112, 97, 115, 115, 119, 111, 114, 100>> (* "current-password" *), <<110, 101, 119, 45, 112, 97, 115, 115, 119, 111, 114, 100>> (* "new-password" *) >>)

\* hasSpecificLoginText
hasSpecificLoginText(doc, n) ==
    LET formText == ToLower(getNodeText(doc, n))
    IN  \/ ContainsAny(formText, << <<115, 105, 103, 110, 32, 105, 110, 32, 116, 111>> (* "sign in to" *), <<108, 111, 103, 32, 105, 110, 32, 116, 111>> (* "log in to" *), <<108, 111, 103, 105, 110, 32, 116, 111>> (* "login to" *),
                                    <<119, 101, 108, 99, 111, 109, 101, 32, 98, 97, 99, 107>> (* "welcome back" *), <<119, 101, 108, 99, 111, 109, 101, 32, 116, 111>> (* "welcome to" *),
                                    <<101, 110, 116, 101, 114, 32, 121, 111, 117, 114>> (* "enter your" *), <<112, 114, 111, 118, 105, 100, 101, 32, 121, 111, 117, 114>> (* "provide your" *),
                                    <<97, 99, 99, 101, 115, 115, 32, 121, 111, 117, 114, 32, 97, 99, 99, 111, 117, 110, 116>> (* "access your account" *), <<97, 99, 99, 101, 115, 115, 32, 97, 99, 99, 111, 117, 110, 116>> (* "access account" *),
                                    <<121, 111, 117, 114, 32, 99, 114, 101, 100, 101, 110, 116, 105, 97, 108, 115>> (* "your credentials" *), <<121, 111, 117, 114, 32, 112, 97, 115, 115, 119, 111, 114, 100>> (* "your password" *),
                                    <<97, 117, 116, 104, 101, 110, 116, 105, 99, 97, 116, 105, 111, 110, 32, 114, 101, 113, 117, 105, 114, 101, 100>> (* "authentication required" *), <<108, 111, 103, 105, 110, 32, 114, 101, 113, 117, 105, 114, 101, 100>> (* "login required" *) >>)
        \/ ContainsAny(formText, << <<117, 115, 101, 114, 110, 97, 109, 101>> (* "username" *), <<117, 115, 101, 114, 32, 105, 100>> (* "user id" *), <<117, 115, 101, 114, 105, 100>> (* "userid" *), <<117, 115, 101, 114, 45, 105, 100>> (* "user-id" *),
                                    <<101, 109, 97, 105, 108, 32, 97, 100, 100, 114, 101, 115, 115>> (* "email address" *), <<101, 109, 97, 105, 108, 32, 97, 100, 100, 114>> (* "email addr" *), <<101, 45, 109, 97, 105, 108>> (* "e-mail" *),
                                    <<112, 97, 115, 115, 119, 111, 114, 100>> (* "password" *), <<112, 97, 115, 115, 119, 100>> (* "passwd" *), <<112, 97, 115, 115, 32, 119, 111, 114, 100>> (* "pass word" *), <<112, 97, 115, 115, 45, 119, 111, 114, 100>> (* "pass-word" *) >>)

\* isSubmitButton
isSubmitButton(node) ==
    /\ node.Type = "ElementNode"
    /\ ToLower(node.Data) \in {<<98, 117, 116, 116, 111, 110>> (* "button" *), <<105, 110, 112, 117, 116>> (* "input" *)}
    /\ \E i \in 1..Len(node.Attr) :
           EqualFold(node.Attr[i].Key, <<116, 121, 112, 101>> (* "type" *)) /\ EqualFold(node.Attr[i].Val, <<115, 117, 98, 109, 105, 116>> (* "submit" *))

\* findSubmitButtonWithText and its loop over the children.
RECURSIVE findSubmitButtonWithText(_, _, _)
findSubmitButtonWithText(doc, n, buttonTexts) ==
    \/ /\ isSubmitButton(doc[n])
       /\ ContainsAny(ToLower(getNodeText(doc, n)), buttonTexts)
    \/ LET kids == Kids(doc, n) IN \E k \in 1..Len(kids) : findSubmitButtonWithText(doc, kids[k], buttonTexts)

\* hasLoginSubmitButton
hasLoginSubmitButton(doc, n) ==
    findSubmitButtonWithText(doc, n, << <<108, 111, 103, 105, 110>> (* "login" *), <<115, 105, 103, 110, 32, 105, 110>> (* "sign in" *), <<115, 105, 103, 110, 105, 110>> (* "signin" *), <<108, 111, 103, 32, 105, 110>> (* "log in" *),
                                        <<97, 117, 116, 104, 101, 110, 116, 105, 99, 97, 116, 101>> (* "authenticate" *), <<99, 111, 110, 116, 105, 110, 117, 101>> (* "continue" *), <<115, 117, 98, 109, 105, 116>> (* "submit" *),
                                        <<101, 110, 116, 101, 114>> (* "enter" *), <<97, 99, 99, 101, 115, 115>> (* "access" *), <<112, 114, 111, 99, 101, 101, 100>> (* "proceed" *) >>)

\* containsLoginKeyword
containsLoginKeyword(s) ==
    ContainsAny(ToLower(s), << <<117, 115, 101, 114, 110, 97, 109, 101>> (* "username" *), <<117, 115, 101, 114, 105, 100>> (* "userid" *), <<117, 115, 101, 114, 95, 105, 100>> (* "user_id" *), <<117, 115, 101, 114, 45, 110, 97, 109, 101>> (* "user-name" *), <<112, 97, 115, 115, 119, 111, 114, 100>> (* "password" *),
                               <<112, 97, 115, 115, 119, 100>> (* "passwd" *), <<112, 97, 115, 115, 95, 119, 111, 114, 100>> (* "pass_word" *), <<112, 97, 115, 115, 45, 119, 111, 114, 100>> (* "pass-word" *), <<108, 111, 103, 105, 110>> (* "login" *), <<101, 109, 97, 105, 108>> (* "email" *) >>)

\* isLoginAttribute as it would be if only the name and id of an input were
\* looked at.
isLoginAttributeNameOnly(attr) ==
    IF ToLower(attr.Key) \in {<<110, 97, 109, 101>> (* "name" *), <<105, 100>> (* "id" *)} THEN containsLoginKeyword(attr.Val)
    ELSE FALSE

\* isLoginAttribute
isLoginAttribute(attr) ==
    IF ToLower(attr.Key) = <<116, 121, 112, 101>> (* "type" *) THEN EqualFold(attr.Val, <<112, 97, 115, 115, 119, 111, 114, 100>> (* "password" *))
    ELSE IF ToLower(attr.Key) \in {<<110, 97, 109, 101>> (* "name" *), <<105, 100>> (* "id" *)} THEN containsLoginKeyword(attr.Val)
    ELSE FALSE

\* isLoginInput
isLoginInput(node) == \E i \in 1..Len(node.Attr) : isLoginAttribute(node.Attr[i])

\* checkInputs: an input element answers for itself (its subtree is not
\* searched); any other node answers for its children.
RECURSIVE checkInputs(_, _)
checkInputs(doc, n) ==
    IF isInputElement(doc[n]) THEN isLoginInput(doc[n])
    ELSE LET kids == Kids(doc, n) IN \E k \in 1..Len(kids) : checkInputs(doc, kids[k])

\* hasLoginInputs
hasLoginInputs(doc, n) == checkInputs(doc, n)

\* isLoginForm as it would be without the test for a password input.
isLoginFormWithoutPassword(doc, n) ==
    \/ hasLoginPattern(doc[n])
    \/ hasAuthAttributes(doc[n])
    \/ hasSpecificLoginText(doc, n)
    \/ hasLoginSubmitButton(doc, n)
    \/ hasLoginInputs(doc, n)

\* isLoginForm
isLoginForm(doc, n) ==
    IF ~hasPasswordInput(doc, n) THEN FALSE
    ELSE /\ hasPasswordInput(doc, n)
         /\ \/ hasLoginPattern(doc[n])
            \/ hasAuthAttributes(doc[n])
            \/ hasSpecificLoginText(doc, n)
            \/ hasLoginSubmitButton(doc, n)
            \/ hasLoginInputs(doc, n)

\* findLoginForm and its loop over the children.
RECURSIVE findLoginForm(_, _)
findLoginForm(doc, n) ==
    \/ isFormElement(doc[n]) /\ isLoginForm(doc, n)
    \/ LET kids == Kids(doc, n) IN \E k \in 1..Len(kids) : findLoginForm(doc, kids[k])

\* ExtractLoginForm
ExtractLoginForm(doc) == IF ~toHTMLNode(doc) THEN FALSE ELSE findLoginForm(doc, 1)


(***************************************************************************)
(* Bounds of the model.                                                    *)
(***************************************************************************)
\* NewWorkerPool is called with 1..MaxWorkers workers.
MaxWorkers == 2

\* Goroutines that call into the pool, a task group or the service.
NumCallers == 2

\* Tasks a caller adds to a task group of its own, or passes to Submit.
MaxTasks == 2

\* Calls of Wait or Shutdown made on the pool.
MaxPoolCalls == 1

Callers == 1..NumCallers

(***************************************************************************)
(* State.                                                                  *)
(***************************************************************************)
VARIABLES
    workers,      \* WorkerPool.workers: the number of worker goroutines started
    taskQueue,    \* WorkerPool.taskQueue: the closures buffered in the channel
    closed,       \* taskQueue has been closed
    ctxDone,      \* WorkerPool.ctx has been cancelled
    idle,         \* the worker goroutines blocked in their select
    running,      \* the closures worker goroutines are running (a bag)
    panicking,    \* the worker goroutines a panic of their task is unwinding
    crashed,      \* the process was terminated by a panic in a worker goroutine
    ctl,          \* the goroutine that calls Wait and Shutdown: [pc, op, calls, returned]
    kind,         \* what each caller is doing: a task group, SubmitAndWait, Submit, AnalyzeWebpage
    pc,           \* each caller's position
    tasks,        \* AnalysisTaskGroup.tasks of each caller's group
    idx,          \* ExecuteAll: the tasks of the group passed to Submit so far
    wg,           \* ExecuteAll: the counter of its sync.WaitGroup
    fn,           \* Submit, SubmitAndWait: the TaskFunc the caller passes
    resultChan,   \* SubmitAndWait: the contents of resultChan
    ret,          \* SubmitAndWait: the error returned; AnalyzeWebpage: [analysis, err]
    req,          \* AnalyzeWebpage: the locals of the call
    cachePtr,     \* service.cache: the LocalCache the service was built with, or nil
    cache,        \* LocalCache.cache
    web,          \* what the fetch collaborator answers for each URL
    clock,        \* time.Now(), in milliseconds
    page,         \* the parser alone: the markup of the document under extraction
    pageURL,      \* the parser alone: the URL of the page
    extracted,    \* the parser alone: what the passes returned
    httpReq,      \* the handler alone: the HTTP request, [Method, Body]
    mock,         \* the handler alone: what the analyzer service behind it answers
    httpResp,     \* the handler alone: what was written to the ResponseWriter
    handlerPc,    \* the handler alone: "serving", "returned" or "panicked"
    got,          \* a task group alone: what the last GetResult returned
    runs,         \* history: for each closure, how many times a worker ran it
    outcome,      \* history: for each closure, how its Submit ended
    trace,        \* history: the phases each AnalyzeWebpage call went through
    before        \* history: the calls that had returned a record when each call began

poolVars == <<workers, taskQueue, closed, ctxDone, idle, running, panicking, crashed, ctl>>

callVars == <<kind, pc, tasks, idx, wg, fn, resultChan, ret>>

svcVars == <<req, cachePtr, cache, web, clock>>

unitVars == <<page, pageURL, extracted, httpReq, mock, httpResp, handlerPc, got>>

histVars == <<runs, outcome, trace>>


vars == <<workers, taskQueue, closed, ctxDone, idle, running, panicking, crashed, ctl,
          kind, pc, tasks, idx, wg, fn, resultChan, ret,
          req, cachePtr, cache, web, clock, page, pageURL, extracted, httpReq, mock, httpResp, handlerPc,
          got, runs, outcome, trace, before>>

\* make(chan Task, workers*2)
QueueCap == workers * 2

\* A closure handed to Submit: the caller that made it and, for a closure of
\* ExecuteAll, the position of its task in the group.
Closure(c, i) == [owner |-> c, index |-> i]


(***************************************************************************)
(* The inputs of the service: page URLs, documents as the parse            *)
(* collaborator returns them, and the fetch collaborator's answers.        *)
(***************************************************************************)
URL1 == <<104, 116, 116, 112, 58, 47, 47, 97, 46, 105, 111>> (* "http://a.io" *)

URL2 == <<104, 116, 116, 112, 115, 58, 47, 47, 98, 46, 105, 111, 47, 112>> (* "https://b.io/p" *)

URLs == {URL1, URL2}

PageA ==
    <<
      [Type |-> "DocumentNode", Data |-> <<>>, Attr |-> <<>>, Parent |-> 0],
      [Type |-> "DoctypeNode", Data |-> <<104, 116, 109, 108>> (* "html" *), Attr |-> <<>>, Parent |-> 1],
      [Type |-> "ElementNode", Data |-> <<104, 116, 109, 108>> (* "html" *), Attr |-> <<>>, Parent |-> 1],
      [Type |-> "ElementNode", Data |-> <<104, 101, 97, 100>> (* "head" *), Attr |-> <<>>, Parent |-> 3],
      [Type |-> "ElementNode", Data |-> <<116, 105, 116, 108, 101>> (* "title" *), Attr |-> <<>>, Parent |-> 4],
      [Type |-> "TextNode", Data |-> <<32, 72, 105, 32>> (* " Hi " *), Attr |-> <<>>, Parent |-> 5],
      [Type |-> "ElementNode", Data |-> <<98, 111, 100, 121>> (* "body" *), Attr |-> <<>>, Parent |-> 3],
      [Type |-> "ElementNode", Data |-> <<104, 49>> (* "h1" *), Attr |-> <<>>, Parent |-> 7],
      [Type |-> "TextNode", Data |-> <<84>> (* "T" *), Attr |-> <<>>, Parent |-> 8],
      [Type |-> "ElementNode", Data |-> <<97>> (* "a" *), Attr |-> <<[Key |-> <<104, 114, 101, 102>> (* "href" *), Val |-> <<47, 120>> (* "/x" *)]>>, Parent |-> 7],
      [Type |-> "ElementNode", Data |-> <<97>> (* "a" *), Attr |-> <<[Key |-> <<104, 114, 101, 102>> (* "href" *), Val |-> <<104, 116, 116, 112, 58, 47, 47, 98, 46, 105, 111>> (* "http://b.io" *)]>>, Parent |-> 7],
      [Type |-> "ElementNode", Data |-> <<97>> (* "a" *), Attr |-> <<[Key |-> <<104, 114, 101, 102>> (* "href" *), Val |-> <<72, 84, 84, 80, 58, 47, 47, 65, 46, 73, 79, 58, 56, 48, 47, 121>> (* "HTTP://A.IO:80/y" *)]>>, Parent |-> 7],
      [Type |-> "ElementNode", Data |-> <<97>> (* "a" *), Attr |-> <<>>, Parent |-> 7] >>

PageB ==
    <<
      [Type |-> "DocumentNode", Data |-> <<>>, Attr |-> <<>>, Parent |-> 0],
      [Type |-> "DoctypeNode", Data |-> <<104, 116, 109, 108>> (* "html" *), Attr |-> <<[Key |-> <<112, 117, 98, 108, 105, 99>> (* "public" *), Val |-> <<120, 104, 116, 109, 108, 32, 49>> (* "xhtml 1" *)]>>, Parent |-> 1],
      [Type |-> "ElementNode", Data |-> <<104, 116, 109, 108>> (* "html" *), Attr |-> <<>>, Parent |-> 1],
      [Type |-> "ElementNode", Data |-> <<104, 101, 97, 100>> (* "head" *), Attr |-> <<>>, Parent |-> 3],
      [Type |-> "ElementNode", Data |-> <<98, 111, 100, 121>> (* "body" *), Attr |-> <<>>, Parent |-> 3],
      [Type |-> "ElementNode", Data |-> <<104, 50>> (* "h2" *), Attr |-> <<>>, Parent |-> 5],
      [Type |-> "ElementNode", Data |-> <<104, 50>> (* "h2" *), Attr |-> <<>>, Parent |-> 5],
      [Type |-> "ElementNode", Data |-> <<102, 111, 114, 109>> (* "form" *), Attr |-> <<[Key |-> <<97, 99, 116, 105, 111, 110>> (* "action" *), Val |-> <<47, 108, 111, 103, 105, 110>> (* "/login" *)]>>, Parent |-> 5],
      [Type |-> "ElementNode", Data |-> <<105, 110, 112, 117, 116>> (* "input" *), Attr |-> <<[Key |-> <<116, 121, 112, 101>> (* "type" *), Val |-> <<112, 97, 115, 115, 119, 111, 114, 100>> (* "password" *)], [Key |-> <<110, 97, 109, 101>> (* "name" *), Val |-> <<112>> (* "p" *)]>>, Parent |-> 8],
      [Type |-> "ElementNode", Data |-> <<105, 110, 112, 117, 116>> (* "input" *), Attr |-> <<[Key |-> <<116, 121, 112, 101>> (* "type" *), Val |-> <<115, 117, 98, 109, 105, 116>> (* "submit" *)]>>, Parent |-> 8],
      [Type |-> "ElementNode", Data |-> <<97>> (* "a" *), Attr |-> <<[Key |-> <<104, 114, 101, 102>> (* "href" *), Val |-> <<106, 97, 118, 97, 115, 99, 114, 105, 112, 116, 58, 120>> (* "javascript:x" *)]>>, Parent |-> 5],
      [Type |-> "ElementNode", Data |-> <<97>> (* "a" *), Attr |-> <<[Key |-> <<104, 114, 101, 102>> (* "href" *), Val |-> <<47, 47, 98, 46, 105, 111, 47, 113>> (* "//b.io/q" *)]>>, Parent |-> 5],
      [Type |-> "ElementNode", Data |-> <<97>> (* "a" *), Attr |-> <<[Key |-> <<104, 114, 101, 102>> (* "href" *), Val |-> <<109, 97, 105, 108, 116, 111, 58, 109>> (* "mailto:m" *)]>>, Parent |-> 5] >>

PageC ==
    <<
      [Type |-> "DocumentNode", Data |-> <<>>, Attr |-> <<>>, Parent |-> 0],
      [Type |-> "ElementNode", Data |-> <<104, 116, 109, 108>> (* "html" *), Attr |-> <<>>, Parent |-> 1],
      [Type |-> "ElementNode", Data |-> <<104, 101, 97, 100>> (* "head" *), Attr |-> <<>>, Parent |-> 2],
      [Type |-> "ElementNode", Data |-> <<116, 105, 116, 108, 101>> (* "title" *), Attr |-> <<>>, Parent |-> 3],
      [Type |-> "ElementNode", Data |-> <<98, 111, 100, 121>> (* "body" *), Attr |-> <<>>, Parent |-> 2],
      [Type |-> "ElementNode", Data |-> <<102, 111, 114, 109>> (* "form" *), Attr |-> <<>>, Parent |-> 5],
      [Type |-> "ElementNode", Data |-> <<105, 110, 112, 117, 116>> (* "input" *), Attr |-> <<[Key |-> <<110, 97, 109, 101>> (* "name" *), Val |-> <<117, 115, 101, 114, 110, 97, 109, 101>> (* "username" *)]>>, Parent |-> 6],
      [Type |-> "ElementNode", Data |-> <<98, 117, 116, 116, 111, 110>> (* "button" *), Attr |-> <<[Key |-> <<116, 121, 112, 101>> (* "type" *), Val |-> <<115, 117, 98, 109, 105, 116>> (* "submit" *)]>>, Parent |-> 6],
      [Type |-> "TextNode", Data |-> <<76, 111, 103, 105, 110>> (* "Login" *), Attr |-> <<>>, Parent |-> 8],
      [Type |-> "ElementNode", Data |-> <<97>> (* "a" *), Attr |-> <<[Key |-> <<104, 114, 101, 102>> (* "href" *), Val |-> <<104, 116, 116, 112, 58, 47, 47, 98, 32, 105, 111>> (* "http://b io" *)]>>, Parent |-> 5] >>

\* A document handle, as ParseHTML returns it and the passes receive it,
\* names a parsed tree; NoDocument is a handle that is no *html.Node.
NoDocument == "NoDocument"

Document(handle) ==
    CASE handle = "PageA" -> PageA
      [] handle = "PageB" -> PageB
      [] handle = "PageC" -> PageC
      [] OTHER -> NotANode

\* FetchWebpage's results: (body, statusCode, err).  A body is what
\* ParseHTML makes of it: a document handle or an error.
Fetched(doc) == [body |-> [doc |-> doc, parseErr |-> Nil], statusCode |-> 200, err |-> Nil]

Unparsable ==
    [body |-> [doc |-> NoDocument, parseErr |-> [type |-> "error", v |-> "failed to parse HTML: EOF"]],
     statusCode |-> 200, err |-> Nil]

HTTPStatus(code) == [body |-> [doc |-> NoDocument, parseErr |-> Nil], statusCode |-> code, err |-> Nil]

FetchError(code) ==
    [body |-> [doc |-> NoDocument, parseErr |-> Nil], statusCode |-> code,
     err |-> [type |-> "error", v |-> "failed to fetch URL: connection refused"]]

Webs ==
    { (URL1 :> Fetched("PageA")) @@ (URL2 :> Fetched("PageB")),
      (URL1 :> Fetched("PageC")) @@ (URL2 :> Unparsable),
      (URL1 :> FetchError(0)) @@ (URL2 :> HTTPStatus(404)),
      (URL1 :> Fetched(NoDocument)) @@ (URL2 :> HTTPStatus(418)) }

(***************************************************************************)
(* Task functions.  An AnalysisTask.Task of a test group returns a fixed   *)
(* (result, error) pair or panics; the five tasks of AnalyzeWebpage are    *)
(* closures over the document and the URL of their call.                   *)
(***************************************************************************)
ReturnTask(result, error) == [fn |-> "return", result |-> result, error |-> error]

PanicTask == [fn |-> "panic", result |-> Nil, error |-> Nil]

PassTask(name) == [fn |-> name, result |-> Nil, error |-> Nil]

\* The closures AnalyzeWebpage adds to its group: the value each returns.
PassResult(name, doc, url) ==
    CASE name = "html_version" -> [type |-> "string", v |-> ExtractHTMLVersion(doc)]
      [] name = "page_title"   -> [type |-> "string", v |-> ExtractPageTitle(doc)]
      [] name = "headings"     -> [type |-> "map", v |-> ExtractHeadings(doc)]
      [] name = "links"        -> [type |-> "map", v |-> ExtractLinks(doc, url)]
      [] name = "login_form"   -> [type |-> "bool", v |-> ExtractLoginForm(doc)]

\* The names of the five tasks, in the order AnalyzeWebpage adds them.
PassNames == <<"html_version", "page_title", "headings", "links", "login_form">>

\* The documents a call of AnalyzeWebpage can hold.
Docs == {"PageA", "PageB", "PageC", NoDocument}

\* The passes are functions of the document and the URL alone: their values,
\* computed once.
PassResults ==
    [name \in {PassNames[i] : i \in 1..Len(PassNames)}, doc \in Docs, url \in URLs |->
        PassResult(name, Document(doc), url)]

\* task.Task(): [panics, result, error]
CallTask(task, doc, url) ==
    CASE task.fn = "return" -> [panics |-> FALSE, result |-> task.result, error |-> task.error]
      [] task.fn = "panic"  -> [panics |-> TRUE, result |-> Nil, error |-> Nil]
      [] OTHER              -> [panics |-> FALSE, result |-> PassResults[task.fn, doc, url],
                                error |-> Nil]

\* The TaskFunc values a caller passes to Submit and SubmitAndWait.
TaskFuncs == {"ok", "err", "panic"}

\* task(): [panics, error]
CallFunc(f, c) ==
    CASE f = "ok"    -> [panics |-> FALSE, error |-> Nil]
      [] f = "err"   -> [panics |-> FALSE, error |-> ErrorOf(c)]
      [] f = "panic" -> [panics |-> TRUE, error |-> Nil]

(***************************************************************************)
(* AnalysisTaskGroup.                                                      *)
(***************************************************************************)
\* AddTask
AddTask(ts, name, task) ==
    Append(ts, [Name |-> name, Task |-> task, Result |-> Nil, Error |-> Nil])

\* A closure that captured the loop variable of a later turn: it stores into
\* the entry after its own.
StoreResultInNextEntry(ts, i, r) ==
    [ts EXCEPT ![(i % Len(ts)) + 1].Result = r.result, ![(i % Len(ts)) + 1].Error = r.error]

\* The closure of ExecuteAll: task.Result = result; task.Error = err
StoreResult(ts, i, r) == [ts EXCEPT ![i].Result = r.result, ![i].Error = r.error]

\* GetResult: the pair of the first task with that name, else (nil, nil).
RECURSIVE GetResultFrom(_, _, _)
GetResultFrom(ts, taskName, i) ==
    IF i > Len(ts) THEN [result |-> Nil, error |-> Nil]
    ELSE IF ts[i].Name = taskName THEN [result |-> ts[i].Result, error |-> ts[i].Error]
    ELSE GetResultFrom(ts, taskName, i + 1)

\* A GetResult that reports a name it does not find as an error.
GetResultNotFoundError(ts, taskName) ==
    IF \E i \in 1..Len(ts) : ts[i].Name = taskName THEN GetResultFrom(ts, taskName, 1)
    ELSE [result |-> Nil, error |-> ErrorOf(taskName)]

GetResult(ts, taskName) == GetResultFrom(ts, taskName, 1)

\* A HasErrors that looks at the first task only.
HasErrorsOfFirstTask(ts) == Len(ts) > 0 /\ ~IsNil(ts[1].Error)

\* HasErrors
HasErrors(ts) == \E i \in 1..Len(ts) : ~IsNil(ts[i].Error)

(***************************************************************************)
(* WorkerPool.  The worker goroutines run the same code and have no        *)
(* identity: the pool state counts the workers blocked in their select     *)
(* (idle) and holds the bag of closures being run (running).               *)
(***************************************************************************)
\* wp.wg: the worker goroutines that have not run their deferred wg.Done().
PoolWg == idle + BagCardinality(running)

\* The cases of Submit's select that can proceed: the send (which panics on
\* a closed channel) and the receive from ctx.Done().
SubmitOutcomes ==
    (IF ~closed /\ Len(taskQueue) < QueueCap THEN {"sent"} ELSE {})
        \cup (IF closed THEN {"panic"} ELSE {})
        \cup (IF ctxDone THEN {"dropped"} ELSE {})

\* Submit, taking case o of its select.
Submit(cl, o) ==
    taskQueue' = IF o = "sent" THEN Append(taskQueue, cl) ELSE taskQueue

\* A receive that hands the head of the queue to a worker and leaves it
\* queued.
WorkerReceiveKeepsTask ==
    /\ ~crashed
    /\ idle > 0
    /\ taskQueue # <<>>
    /\ idle' = idle - 1
    /\ running' = running (+) SetToBag({Head(taskQueue)})
    /\ UNCHANGED <<workers, taskQueue, closed, ctxDone, panicking, crashed, ctl>>
    /\ UNCHANGED <<callVars, svcVars, unitVars, before, histVars>>

\* worker: the receive case of the select delivers a task.
WorkerReceive ==
    /\ ~crashed
    /\ idle > 0
    /\ taskQueue # <<>>
    /\ idle' = idle - 1
    /\ running' = running (+) SetToBag({Head(taskQueue)})
    /\ taskQueue' = Tail(taskQueue)
    /\ UNCHANGED <<workers, closed, ctxDone, panicking, crashed, ctl>>
    /\ UNCHANGED <<callVars, svcVars, unitVars, before, histVars>>

\* worker: the receive case reports the closed, drained channel (!ok).
WorkerExitClosed ==
    /\ ~crashed
    /\ idle > 0
    /\ taskQueue = <<>>
    /\ closed
    /\ idle' = idle - 1
    /\ UNCHANGED <<workers, taskQueue, closed, ctxDone, running, panicking, crashed, ctl>>
    /\ UNCHANGED <<callVars, svcVars, unitVars, before, histVars>>

\* worker: the ctx.Done() case of the select.
WorkerExitCancelled ==
    /\ ~crashed
    /\ idle > 0
    /\ ctxDone
    /\ idle' = idle - 1
    /\ UNCHANGED <<workers, taskQueue, closed, ctxDone, running, panicking, crashed, ctl>>
    /\ UNCHANGED <<callVars, svcVars, unitVars, before, histVars>>

\* The worker that ran closure cl is back at its select, or, when the task
\* panicked, unwinds (its deferred calls have run).
AfterTask(cl, panics) ==
    /\ running' = running (-) SetToBag({cl})
    /\ idle' = IF panics THEN idle ELSE idle + 1
    /\ panicking' = IF panics THEN panicking + 1 ELSE panicking

\* history: the Submit of caller c's next closure took case o of its select;
\* late tells that the pool's context was already cancelled.
Noted(c, o) == [outcome EXCEPT ![c] = Append(@, [o |-> o, late |-> ctxDone])]

\* history: closure cl is run once more.
Logged(cl) == [runs EXCEPT ![cl.owner][cl.index] = @ + 1]

\* A worker runs a closure of ExecuteAll: the task function, the two stores
\* and the deferred wg.Done().
WorkerRunGroupTask(cl) ==
    LET c == cl.owner
    IN  /\ ~crashed
        /\ BagIn(cl, running)
        /\ kind[c] \in {"group", "analyze"}
        /\ \E r \in {CallTask(tasks[c][cl.index].Task, req[c].doc, req[c].URL)} :
               /\ tasks' = IF r.panics THEN tasks
                           ELSE [tasks EXCEPT ![c] = StoreResult(tasks[c], cl.index, r)]
               /\ AfterTask(cl, r.panics)
        /\ wg' = [wg EXCEPT ![c] = @ - 1]
        /\ runs' = Logged(cl)
        /\ UNCHANGED <<workers, taskQueue, closed, ctxDone, crashed, ctl>>
        /\ UNCHANGED <<kind, pc, idx, fn, resultChan, ret, svcVars, unitVars, before, outcome, trace>>

\* A closure of SubmitAndWait that signals completion without the task's
\* error: resultChan <- nil
WorkerRunWaitTaskSendsNil(cl) ==
    LET c == cl.owner
        r == CallFunc(fn[c], c)
    IN  /\ ~crashed
        /\ BagIn(cl, running)
        /\ kind[c] = "wait"
        /\ resultChan' = IF r.panics THEN resultChan
                         ELSE [resultChan EXCEPT ![c] = Append(@, Nil)]
        /\ AfterTask(cl, r.panics)
        /\ runs' = Logged(cl)
        /\ UNCHANGED <<workers, taskQueue, closed, ctxDone, crashed, ctl>>
        /\ UNCHANGED <<kind, pc, tasks, idx, wg, fn, ret, svcVars, unitVars, before, outcome, trace>>

\* A worker runs the closure of SubmitAndWait: err := task(); resultChan <- err
WorkerRunWaitTask(cl) ==
    LET c == cl.owner
        r == CallFunc(fn[c], c)
    IN  /\ ~crashed
        /\ BagIn(cl, running)
        /\ kind[c] = "wait"
        /\ resultChan' = IF r.panics THEN resultChan
                         ELSE [resultChan EXCEPT ![c] = Append(@, r.error)]
        /\ AfterTask(cl, r.panics)
        /\ runs' = Logged(cl)
        /\ UNCHANGED <<workers, taskQueue, closed, ctxDone, crashed, ctl>>
        /\ UNCHANGED <<kind, pc, tasks, idx, wg, fn, ret, svcVars, unitVars, before, outcome, trace>>

\* A worker runs a task passed to Submit directly.
WorkerRunPlainTask(cl) ==
    LET c == cl.owner
        r == CallFunc(fn[c], c)
    IN  /\ ~crashed
        /\ BagIn(cl, running)
        /\ kind[c] = "submit"
        /\ AfterTask(cl, r.panics)
        /\ runs' = Logged(cl)
        /\ UNCHANGED <<workers, taskQueue, closed, ctxDone, crashed, ctl>>
        /\ UNCHANGED <<callVars, svcVars, unitVars, before, outcome, trace>>

\* A panic that left a worker goroutine terminates the process.
WorkerCrash ==
    /\ ~crashed
    /\ panicking > 0
    /\ crashed' = TRUE
    /\ UNCHANGED <<workers, taskQueue, closed, ctxDone, idle, running, panicking, ctl>>
    /\ UNCHANGED <<callVars, svcVars, unitVars, before, histVars>>

\* A close that leaves a closed queue alone, as a guarded or once-only close
\* would.
CloseQueueOnce(op) ==
    /\ ctl' = [ctl EXCEPT !.pc = "waiting", !.op = op,
                          !.calls = (IF op = "Wait" THEN @ + 1 ELSE @)]
    /\ closed' = TRUE

\* close(wp.taskQueue) by Wait or Shutdown: closing a closed channel panics.
CloseQueue(op) ==
    /\ ctl' = [ctl EXCEPT !.pc = (IF closed THEN "panicked" ELSE "waiting"), !.op = op,
                          !.calls = (IF op = "Wait" THEN @ + 1 ELSE @)]
    /\ closed' = TRUE

\* Wait: close(wp.taskQueue); the goroutine makes at most n calls of Wait
\* and Shutdown.
WaitCloseWithin(n) ==
    /\ ~crashed
    /\ ctl.pc = "idle"
    /\ ctl.calls < n
    /\ CloseQueue("Wait")
    /\ UNCHANGED <<workers, taskQueue, ctxDone, idle, running, panicking, crashed>>
    /\ UNCHANGED <<callVars, svcVars, unitVars, before, histVars>>

WaitClose == WaitCloseWithin(MaxPoolCalls)

\* Shutdown: wp.cancel()
ShutdownCancelWithin(n) ==
    /\ ~crashed
    /\ ctl.pc = "idle"
    /\ ctl.calls < n
    /\ ctxDone' = TRUE
    /\ ctl' = [ctl EXCEPT !.pc = "closing", !.op = "Shutdown", !.calls = @ + 1]
    /\ UNCHANGED <<workers, taskQueue, closed, idle, running, panicking, crashed>>
    /\ UNCHANGED <<callVars, svcVars, unitVars, before, histVars>>

ShutdownCancel == ShutdownCancelWithin(MaxPoolCalls)

\* Shutdown: close(wp.taskQueue)
ShutdownClose ==
    /\ ~crashed
    /\ ctl.pc = "closing"
    /\ CloseQueue("Shutdown")
    /\ UNCHANGED <<workers, taskQueue, ctxDone, idle, running, panicking, crashed>>
    /\ UNCHANGED <<callVars, svcVars, unitVars, before, histVars>>

\* Wait, Shutdown: wp.wg.Wait() returns, and with it the call.
PoolWaitReturn ==
    /\ ~crashed
    /\ ctl.pc = "waiting"
    /\ PoolWg = 0
    /\ ctl' = [ctl EXCEPT !.pc = "idle", !.returned = Append(@, ctl.op)]
    /\ UNCHANGED <<workers, taskQueue, closed, ctxDone, idle, running, panicking, crashed>>
    /\ UNCHANGED <<callVars, svcVars, unitVars, before, histVars>>

(***************************************************************************)
(* Callers of the pool and of a task group (the tests' goroutines).        *)
(***************************************************************************)
\* The task lists a caller builds with AddTask: task1, task2, ... each
\* returning a result, returning an error, or panicking.
TaskName(i) == <<"task", i>>

TaskChoices(i) ==
    {ReturnTask(ResultOf(TaskName(i)), Nil), ReturnTask(Nil, ErrorOf(TaskName(i))), PanicTask}

RECURSIVE AddTasks(_, _, _)
AddTasks(ts, choice, i) ==
    IF i > Len(choice) THEN ts
    ELSE AddTasks(AddTask(ts, TaskName(i), choice[i]), choice, i + 1)

TaskLists ==
    UNION {{AddTasks(<<>>, choice, 1) : choice \in {s \in [1..n -> UNION {TaskChoices(i) : i \in 1..n}] :
                                                       \A i \in 1..n : s[i] \in TaskChoices(i)}} :
           n \in 1..MaxTasks}

EmptyLog(n) == [i \in 1..n |-> 0]

\* NewAnalysisTaskGroup and the AddTask calls of a caller.
GroupBuild(c) ==
    /\ ~crashed
    /\ pc[c] = "idle"
    /\ \E ts \in TaskLists :
           /\ tasks' = [tasks EXCEPT ![c] = ts]
           /\ runs' = [runs EXCEPT ![c] = EmptyLog(Len(ts))]
    /\ kind' = [kind EXCEPT ![c] = "group"]
    /\ pc' = [pc EXCEPT ![c] = "ExecuteAll"]
    /\ UNCHANGED <<poolVars, idx, wg, fn, resultChan, ret, svcVars, unitVars, before, outcome, trace>>

\* The caller's position when ExecuteAll has returned.
AfterExecuteAll(c) == IF kind[c] = "analyze" THEN "Collecting" ELSE "executed"

\* The caller's position at the head of ExecuteAll's loop.
LoopHead(c) == IF kind[c] = "analyze" THEN "Dispatching" ELSE "ExecuteAll"

\* ExecuteAll, one turn of the loop: wg.Add(1); the caller then stands in
\* Submit with the closure of the next task.
ExecuteAllAdd(c) ==
    /\ ~crashed
    /\ pc[c] \in {"ExecuteAll", "Dispatching"}
    /\ idx[c] < Len(tasks[c])
    /\ wg' = [wg EXCEPT ![c] = @ + 1]
    /\ pc' = [pc EXCEPT ![c] = "ExecuteAllSubmit"]
    /\ UNCHANGED <<poolVars, kind, tasks, idx, fn, resultChan, ret, svcVars, unitVars, before, histVars>>

\* ExecuteAll, one turn of the loop: the select of Submit with the closure.
ExecuteAllSubmit(c) ==
    /\ ~crashed
    /\ pc[c] = "ExecuteAllSubmit"
    /\ \E o \in SubmitOutcomes :
           /\ Submit(Closure(c, idx[c] + 1), o)
           /\ outcome' = Noted(c, o)
           /\ pc' = [pc EXCEPT ![c] = IF o = "panic" THEN "panicked" ELSE LoopHead(c)]
    /\ idx' = [idx EXCEPT ![c] = @ + 1]
    /\ UNCHANGED <<workers, closed, ctxDone, idle, running, panicking, crashed, ctl>>
    /\ UNCHANGED <<kind, tasks, wg, fn, resultChan, ret, svcVars, unitVars, before, runs, trace>>

\* An ExecuteAll that returns when its loop is over, without wg.Wait().
ExecuteAllNoWait(c) ==
    /\ ~crashed
    /\ pc[c] \in {"ExecuteAll", "Dispatching"}
    /\ idx[c] = Len(tasks[c])
    /\ pc' = [pc EXCEPT ![c] = AfterExecuteAll(c)]
    /\ trace' = IF kind[c] = "analyze" THEN [trace EXCEPT ![c] = Append(@, "Collecting")] ELSE trace
    /\ UNCHANGED <<poolVars, kind, tasks, idx, wg, fn, resultChan, ret, svcVars, unitVars, before, runs, outcome>>

\* ExecuteAll: the loop is over and wg.Wait() returns.
ExecuteAllWait(c) ==
    /\ ~crashed
    /\ pc[c] \in {"ExecuteAll", "Dispatching"}
    /\ idx[c] = Len(tasks[c])
    /\ wg[c] = 0
    /\ pc' = [pc EXCEPT ![c] = AfterExecuteAll(c)]
    /\ trace' = IF kind[c] = "analyze" THEN [trace EXCEPT ![c] = Append(@, "Collecting")] ELSE trace
    /\ UNCHANGED <<poolVars, kind, tasks, idx, wg, fn, resultChan, ret, svcVars, unitVars, before, runs, outcome>>

\* A caller enters SubmitAndWait: make(chan error, 1), then Submit.
SubmitAndWaitCall(c) ==
    /\ ~crashed
    /\ pc[c] = "idle"
    /\ \E f \in TaskFuncs : fn' = [fn EXCEPT ![c] = f]
    /\ kind' = [kind EXCEPT ![c] = "wait"]
    /\ idx' = [idx EXCEPT ![c] = 1]
    /\ runs' = [runs EXCEPT ![c] = EmptyLog(1)]
    /\ pc' = [pc EXCEPT ![c] = "Submit"]
    /\ UNCHANGED <<poolVars, tasks, wg, resultChan, ret, svcVars, unitVars, before, trace, outcome>>

\* A caller enters Submit with a task of its own (again and again, as the
\* loops of the tests do).
SubmitCall(c) ==
    /\ ~crashed
    /\ \/ /\ pc[c] = "idle"
          /\ \E f \in TaskFuncs : fn' = [fn EXCEPT ![c] = f]
       \/ /\ pc[c] = "ready"
          /\ idx[c] < MaxTasks
          /\ UNCHANGED fn
    /\ kind' = [kind EXCEPT ![c] = "submit"]
    /\ idx' = [idx EXCEPT ![c] = @ + 1]
    /\ runs' = [runs EXCEPT ![c] = Append(@, 0)]
    /\ pc' = [pc EXCEPT ![c] = "Submit"]
    /\ UNCHANGED <<poolVars, tasks, wg, resultChan, ret, svcVars, unitVars, before, trace, outcome>>

\* The select of Submit, for a caller of Submit or of SubmitAndWait.
SubmitSelect(c) ==
    /\ ~crashed
    /\ pc[c] = "Submit"
    /\ \E o \in SubmitOutcomes :
           /\ Submit(Closure(c, idx[c]), o)
           /\ outcome' = Noted(c, o)
           /\ pc' = [pc EXCEPT ![c] = CASE o = "panic" -> "panicked"
                                        [] kind[c] = "wait" -> "receive"
                                        [] OTHER -> "ready"]
    /\ UNCHANGED <<workers, closed, ctxDone, idle, running, panicking, crashed, ctl>>
    /\ UNCHANGED <<kind, tasks, idx, wg, fn, resultChan, ret, svcVars, unitVars, before, runs, trace>>

\* SubmitAndWait: return <-resultChan
SubmitAndWaitReturn(c) ==
    /\ ~crashed
    /\ pc[c] = "receive"
    /\ resultChan[c] # <<>>
    /\ ret' = [ret EXCEPT ![c] = Head(resultChan[c])]
    /\ resultChan' = [resultChan EXCEPT ![c] = Tail(@)]
    /\ pc' = [pc EXCEPT ![c] = "returned"]
    /\ UNCHANGED <<poolVars, kind, tasks, idx, wg, fn, svcVars, unitVars, before, histVars>>


(***************************************************************************)
(* service.AnalyzeWebpage.                                                 *)
(***************************************************************************)
\* The locals of a call before it starts.
NoRequest ==
    [URL |-> <<>>, startTime |-> 0, body |-> [doc |-> NoDocument, parseErr |-> Nil],
     statusCode |-> 0, doc |-> NoDocument, analysis |-> Nil]

\* An AnalysisError that always carries http.StatusInternalServerError.
AnalysisErrorWithStatus500(statusCode, message, url) ==
    [type |-> "AnalysisError",
     v |-> [StatusCode |-> 500, ErrorMessage |-> message, URL |-> url]]

\* &AnalysisError{StatusCode, ErrorMessage, URL}
AnalysisError(statusCode, message, url) ==
    [type |-> "AnalysisError",
     v |-> [StatusCode |-> statusCode, ErrorMessage |-> message, URL |-> url]]

\* &WebpageAnalysis{URL: req.URL, Headings: make(map[string]int), AnalyzedAt: time.Now()}
NewAnalysis(url, now) ==
    [URL |-> url, HTMLVersion |-> <<>>, PageTitle |-> <<>>, Headings |-> EmptyMap,
     InternalLinks |-> 0, ExternalLinks |-> 0, InaccessibleLinks |-> 0,
     HasLoginForm |-> FALSE, AnalyzedAt |-> now, ProcessingTime |-> ""]

\* The task group AnalyzeWebpage builds.
RECURSIVE AddPasses(_, _)
AddPasses(ts, i) ==
    IF i > Len(PassNames) THEN ts
    ELSE AddPasses(AddTask(ts, PassNames[i], PassTask(PassNames[i])), i + 1)

\* http.StatusText: the text of a status code net/http knows, "" for any other.
StatusText(code) ==
    CASE code = 100 -> "Continue"
      [] code = 101 -> "Switching Protocols"
      [] code = 102 -> "Processing"
      [] code = 103 -> "Early Hints"
      [] code = 200 -> "OK"
      [] code = 201 -> "Created"
      [] code = 202 -> "Accepted"
      [] code = 203 -> "Non-Authoritative Information"
      [] code = 204 -> "No Content"
      [] code = 205 -> "Reset Content"
      [] code = 206 -> "Partial Content"
      [] code = 207 -> "Multi-Status"
      [] code = 208 -> "Already Reported"
      [] code = 226 -> "IM Used"
      [] code = 300 -> "Multiple Choices"
      [] code = 301 -> "Moved Permanently"
      [] code = 302 -> "Found"
      [] code = 303 -> "See Other"
      [] code = 304 -> "Not Modified"
      [] code = 305 -> "Use Proxy"
      [] code = 307 -> "Temporary Redirect"
      [] code = 308 -> "Permanent Redirect"
      [] code = 400 -> "Bad Request"
      [] code = 401 -> "Unauthorized"
      [] code = 402 -> "Payment Required"
      [] code = 403 -> "Forbidden"
      [] code = 404 -> "Not Found"
      [] code = 405 -> "Method Not Allowed"
      [] code = 406 -> "Not Acceptable"
      [] code = 407 -> "Proxy Authentication Required"
      [] code = 408 -> "Request Timeout"
      [] code = 409 -> "Conflict"
      [] code = 410 -> "Gone"
      [] code = 411 -> "Length Required"
      [] code = 412 -> "Precondition Failed"
      [] code = 413 -> "Request Entity Too Large"
      [] code = 414 -> "Request URI Too Long"
      [] code = 415 -> "Unsupported Media Type"
      [] code = 416 -> "Requested Range Not Satisfiable"
      [] code = 417 -> "Expectation Failed"
      [] code = 418 -> "I'm a teapot"
      [] code = 421 -> "Misdirected Request"
      [] code = 422 -> "Unprocessable Entity"
      [] code = 423 -> "Locked"
      [] code = 424 -> "Failed Dependency"
      [] code = 425 -> "Too Early"
      [] code = 426 -> "Upgrade Required"
      [] code = 428 -> "Precondition Required"
      [] code = 429 -> "Too Many Requests"
      [] code = 431 -> "Request Header Fields Too Large"
      [] code = 451 -> "Unavailable For Legal Reasons"
      [] code = 500 -> "Internal Server Error"
      [] code = 501 -> "Not Implemented"
      [] code = 502 -> "Bad Gateway"
      [] code = 503 -> "Service Unavailable"
      [] code = 504 -> "Gateway Timeout"
      [] code = 505 -> "HTTP Version Not Supported"
      [] code = 506 -> "Variant Also Negotiates"
      [] code = 507 -> "Insufficient Storage"
      [] code = 508 -> "Loop Detected"
      [] code = 510 -> "Not Extended"
      [] code = 511 -> "Network Authentication Required"
      [] OTHER -> ""

getHTTPStatusMessage(statusCode) ==
    CASE statusCode = 400 -> "Bad Request: The URL format is invalid or the request is malformed."
      [] statusCode = 401 -> "Unauthorized: Access to this resource requires authentication."
      [] statusCode = 403 -> "Forbidden: Access to this resource is denied."
      [] statusCode = 404 -> "Not Found: The requested webpage could not be found on the server."
      [] statusCode = 408 -> "Request Timeout: The server took too long to respond."
      [] statusCode = 429 ->
             "Too Many Requests: The server is receiving too many requests. Please try again later."
      [] statusCode = 495 ->
             "SSL Certificate Error: There was a problem with the security certificate."
      [] statusCode = 500 ->
             "Internal Server Error: The server encountered an error while processing the request."
      [] statusCode = 502 ->
             "Bad Gateway: The server received an invalid response from an upstream server."
      [] statusCode = 503 ->
             "Service Unavailable: The server is temporarily unable to handle the request."
      [] statusCode = 504 ->
             "Gateway Timeout: The server acting as a gateway did not receive a timely response."
      [] OTHER -> "HTTP " \o ToString(statusCode) \o ": " \o StatusText(statusCode)

\* return nil, &AnalysisError{...}
Fail(c, e) ==
    /\ ret' = [ret EXCEPT ![c] = [analysis |-> Nil, err |-> e]]
    /\ pc' = [pc EXCEPT ![c] = "Failed"]
    /\ trace' = [trace EXCEPT ![c] = Append(@, "Failed")]

\* A call of AnalyzeWebpage starts: startTime := time.Now()
AnalyzeCall(c) ==
    /\ ~crashed
    /\ pc[c] = "idle"
    /\ \E u \in URLs : req' = [req EXCEPT ![c] = [NoRequest EXCEPT !.URL = u, !.startTime = clock]]
    /\ kind' = [kind EXCEPT ![c] = "analyze"]
    /\ pc' = [pc EXCEPT ![c] = "Lookup"]
    /\ before' = [before EXCEPT ![c] = {d \in Callers : kind[d] = "analyze" /\ pc[d] = "Done"}]
    /\ UNCHANGED <<poolVars, tasks, idx, wg, fn, resultChan, ret, cache, web, cachePtr, unitVars, clock, histVars>>

\* LocalCache.Get
CacheGet(key) ==
    IF key \in DOMAIN cache THEN [value |-> cache[key], ok |-> TRUE]
    ELSE [value |-> Nil, ok |-> FALSE]

\* A Set that makes a new map of the one entry.
CacheSetInNewMap(key, value) == cache' = (key :> value)

\* A Set that keeps the entry a key already has.
CacheSetIfAbsent(key, value) == cache' = IF key \in DOMAIN cache THEN cache ELSE (key :> value) @@ cache

\* LocalCache.Set
CacheSet(key, value) == cache' = (key :> value) @@ cache

\* The cache is a Go map that no lock guards: a call is inside the map from
\* the moment Get or Set starts to the moment it returns.
InMap(c) == pc[c] \in {"Getting", "Setting"}

\* s.cache.Get(req.URL) starts reading the map; on a nil *LocalCache the
\* read of c.cache is a nil pointer dereference and the call panics.
CacheGetBegin(c) ==
    /\ ~crashed
    /\ pc[c] = "Lookup"
    /\ pc' = [pc EXCEPT ![c] = IF cachePtr = "nil" THEN "panicked" ELSE "Getting"]
    /\ UNCHANGED <<poolVars, kind, tasks, idx, wg, fn, resultChan, ret, svcVars, unitVars, before, histVars>>

\* s.cache.Set(req.URL, analysis) starts writing the map; on a nil
\* *LocalCache it panics like Get.
CacheSetBegin(c) ==
    /\ ~crashed
    /\ pc[c] = "Caching"
    /\ pc' = [pc EXCEPT ![c] = IF cachePtr = "nil" THEN "panicked" ELSE "Setting"]
    /\ UNCHANGED <<poolVars, kind, tasks, idx, wg, fn, resultChan, ret, svcVars, unitVars, before, histVars>>

\* A write of the map that overlaps another access of it is a data race.  The
\* runtime may detect it and end the process ("fatal error: concurrent map
\* writes", "concurrent map read and map write"); when it does not, the
\* accesses take effect as they return.
ConcurrentMapFault ==
    /\ ~crashed
    /\ \E c, d \in Callers : c # d /\ pc[c] = "Setting" /\ InMap(d)
    /\ crashed' = TRUE
    /\ UNCHANGED <<workers, taskQueue, closed, ctxDone, idle, running, panicking, ctl,
                   callVars, svcVars, unitVars, before, histVars>>

\* if cached, ok := s.cache.Get(req.URL); ok { return cached, nil }
AnalyzeLookup(c) ==
    /\ ~crashed
    /\ pc[c] = "Getting"
    /\ IF CacheGet(req[c].URL).ok
       THEN /\ ret' = [ret EXCEPT ![c] = [analysis |-> CacheGet(req[c].URL).value, err |-> Nil]]
            /\ pc' = [pc EXCEPT ![c] = "Done"]
            /\ trace' = [trace EXCEPT ![c] = Append(@, "Cached")]
       ELSE /\ pc' = [pc EXCEPT ![c] = "Fetching"]
            /\ trace' = [trace EXCEPT ![c] = Append(@, "Fetching")]
            /\ UNCHANGED ret
    /\ UNCHANGED <<poolVars, kind, tasks, idx, wg, fn, resultChan, svcVars, unitVars, before, runs, outcome>>

\* s.httpClient.FetchWebpage and the two checks of its result.
AnalyzeFetch(c) ==
    LET r == web[req[c].URL]
    IN  /\ ~crashed
        /\ pc[c] = "Fetching"
        /\ req' = [req EXCEPT ![c].body = r.body, ![c].statusCode = r.statusCode]
        /\ IF ~IsNil(r.err)
           THEN Fail(c, AnalysisError(r.statusCode, r.err.v, req[c].URL))
           ELSE IF r.statusCode # 200
           THEN Fail(c, AnalysisError(r.statusCode, getHTTPStatusMessage(r.statusCode), req[c].URL))
           ELSE /\ pc' = [pc EXCEPT ![c] = "Parsing"]
                /\ trace' = [trace EXCEPT ![c] = Append(@, "Parsing")]
                /\ UNCHANGED ret
        /\ UNCHANGED <<poolVars, kind, tasks, idx, wg, fn, resultChan, cache, web, cachePtr, unitVars, before, clock,
                       runs, outcome>>

\* s.httpClient.ParseHTML; then the new record, the task group and its five
\* AddTask calls.
AnalyzeParse(c) ==
    /\ ~crashed
    /\ pc[c] = "Parsing"
    /\ IF ~IsNil(req[c].body.parseErr)
       THEN /\ Fail(c, AnalysisError(req[c].statusCode,
                                     "Failed to parse HTML content: " \o req[c].body.parseErr.v,
                                     req[c].URL))
            /\ UNCHANGED <<req, clock, tasks, runs>>
       ELSE /\ req' = [req EXCEPT ![c].doc = req[c].body.doc,
                                  ![c].analysis = NewAnalysis(req[c].URL, clock)]
            /\ clock' = clock + 1
            /\ tasks' = [tasks EXCEPT ![c] = AddPasses(<<>>, 1)]
            /\ runs' = [runs EXCEPT ![c] = EmptyLog(Len(PassNames))]
            /\ pc' = [pc EXCEPT ![c] = "Dispatching"]
            /\ trace' = [trace EXCEPT ![c] = Append(@, "Dispatching")]
            /\ UNCHANGED ret
    /\ UNCHANGED <<poolVars, kind, idx, wg, fn, resultChan, cache, web, cachePtr, unitVars, before, outcome>>

\* One "if x, err := taskGroup.GetResult(name); err == nil { ... x.(T) ... }":
\* the value assigned, or the field's old value when err is not nil.
Collected(ts, name, old) ==
    IF IsNil(GetResult(ts, name).error) THEN GetResult(ts, name).result.v ELSE old

\* A type assertion x.(T) of the collection fails on a nil interface.
AssertionPanics(ts) ==
    \E i \in 1..Len(PassNames) :
        /\ IsNil(GetResult(ts, PassNames[i]).error)
        /\ IsNil(GetResult(ts, PassNames[i]).result)

\* time.Duration.String() of a duration of d milliseconds, the unit of the
\* clock: "0s", "250ms", "1.5s", "2m0.05s", "1h0m0s".
DurationString(d) ==
    LET ms       == d % 1000
        fraction == IF ms = 0 THEN ""
                    ELSE IF ms % 100 = 0 THEN "." \o ToString(ms \div 100)
                    ELSE IF ms % 10 = 0
                         THEN "." \o (IF ms < 100 THEN "0" ELSE "") \o ToString(ms \div 10)
                    ELSE "." \o (IF ms < 10 THEN "00" ELSE IF ms < 100 THEN "0" ELSE "")
                             \o ToString(ms)
        h        == d \div 3600000
        m        == (d \div 60000) % 60
        sec      == (d \div 1000) % 60
    IN  IF d = 0 THEN "0s"
        ELSE IF d < 1000 THEN ToString(d) \o "ms"
        ELSE (IF h > 0 THEN ToString(h) \o "h" ELSE "")
             \o (IF h > 0 \/ m > 0 THEN ToString(m) \o "m" ELSE "")
             \o ToString(sec) \o fraction \o "s"

\* The collection of the five results and the processing time.
Collect(a, ts, startTime, now) ==
    [a EXCEPT !.HTMLVersion = Collected(ts, "html_version", @),
              !.PageTitle = Collected(ts, "page_title", @),
              !.Headings = Collected(ts, "headings", @),
              !.InternalLinks =
                  IF IsNil(GetResult(ts, "links").error)
                  THEN GetResult(ts, "links").result.v.internal ELSE @,
              !.ExternalLinks =
                  IF IsNil(GetResult(ts, "links").error)
                  THEN GetResult(ts, "links").result.v.external ELSE @,
              !.InaccessibleLinks =
                  IF IsNil(GetResult(ts, "links").error)
                  THEN GetResult(ts, "links").result.v.inaccessible ELSE @,
              !.HasLoginForm = Collected(ts, "login_form", @),
              !.ProcessingTime = DurationString(now - startTime)]

\* An AnalyzeWebpage that returns the record after collecting, without
\* s.cache.Set.
AnalyzeCollectAndReturn(c) ==
    /\ ~crashed
    /\ pc[c] = "Collecting"
    /\ req' = [req EXCEPT ![c].analysis = Collect(@, tasks[c], req[c].startTime, clock)]
    /\ pc' = [pc EXCEPT ![c] = "Done"]
    /\ trace' = [trace EXCEPT ![c] = Append(@, "Done")]
    /\ UNCHANGED <<poolVars, kind, tasks, idx, wg, fn, resultChan, ret, cache, web, cachePtr, unitVars, before, clock,
                   runs, outcome>>

\* AnalyzeWebpage after ExecuteAll: collect the results.
AnalyzeCollect(c) ==
    /\ ~crashed
    /\ pc[c] = "Collecting"
    /\ IF AssertionPanics(tasks[c])
       THEN /\ pc' = [pc EXCEPT ![c] = "panicked"]
            /\ UNCHANGED <<req, trace>>
       ELSE /\ req' = [req EXCEPT ![c].analysis =
                           Collect(@, tasks[c], req[c].startTime, clock)]
            /\ pc' = [pc EXCEPT ![c] = "Caching"]
            /\ trace' = [trace EXCEPT ![c] = Append(@, "Caching")]
    /\ UNCHANGED <<poolVars, kind, tasks, idx, wg, fn, resultChan, ret, cache, web, cachePtr, unitVars, before, clock,
                   runs, outcome>>

\* s.cache.Set(req.URL, analysis); return analysis, nil
AnalyzeCache(c) ==
    /\ ~crashed
    /\ pc[c] = "Setting"
    /\ CacheSet(req[c].URL, req[c].analysis)
    /\ ret' = [ret EXCEPT ![c] = [analysis |-> req[c].analysis, err |-> Nil]]
    /\ pc' = [pc EXCEPT ![c] = "Done"]
    /\ trace' = [trace EXCEPT ![c] = Append(@, "Done")]
    /\ UNCHANGED <<poolVars, kind, tasks, idx, wg, fn, resultChan, req, web, cachePtr, unitVars, before, clock,
                   runs, outcome>>


(***************************************************************************)
(* Specifications.                                                         *)
(***************************************************************************)
\* NewWorkerPool(n): n worker goroutines at their select, an open empty
\* queue of capacity 2n; no caller has started.
InitPool ==
    /\ workers \in 1..MaxWorkers
    /\ taskQueue = <<>>
    /\ closed = FALSE
    /\ ctxDone = FALSE
    /\ idle = workers
    /\ running = EmptyBag
    /\ panicking = 0
    /\ crashed = FALSE
    /\ ctl = [pc |-> "idle", op |-> "none", calls |-> 0, returned |-> <<>>]

\* The parser and the handler are not under test.
InitUnits ==
    /\ page = Nil
    /\ pageURL = <<>>
    /\ extracted = Nil
    /\ httpReq = Nil
    /\ mock = Nil
    /\ httpResp = Nil
    /\ handlerPc = "serving"
    /\ got = Nil

InitCallers ==
    /\ kind = [c \in Callers |-> "none"]
    /\ pc = [c \in Callers |-> "idle"]
    /\ tasks = [c \in Callers |-> <<>>]
    /\ idx = [c \in Callers |-> 0]
    /\ wg = [c \in Callers |-> 0]
    /\ fn = [c \in Callers |-> "ok"]
    /\ resultChan = [c \in Callers |-> <<>>]
    /\ ret = [c \in Callers |-> Nil]
    /\ req = [c \in Callers |-> NoRequest]
    /\ cachePtr = "LocalCache"
    /\ cache = EmptyMap
    /\ clock = 1
    /\ runs = [c \in Callers |-> <<>>]
    /\ outcome = [c \in Callers |-> <<>>]
    /\ trace = [c \in Callers |-> <<>>]
    /\ before = [c \in Callers |-> {}]

\* The pool and task groups, used directly (as the tests of the pool do),
\* with a goroutine that may call Wait and Shutdown at any time.
Init ==
    /\ InitPool
    /\ InitCallers
    /\ InitUnits
    /\ web = [u \in URLs |-> HTTPStatus(404)]

\* The closures a caller can hand to the pool.
Closures == {Closure(c, i) : c \in Callers, i \in 1..(MaxTasks + Len(PassNames))}

WorkerStep ==
    \/ WorkerReceive
    \/ \E cl \in Closures : WorkerRunGroupTask(cl)

Next ==
    \/ WorkerReceive
    \/ WorkerExitClosed
    \/ WorkerExitCancelled
    \/ \E cl \in Closures : WorkerRunGroupTask(cl)
    \/ \E cl \in Closures : WorkerRunWaitTask(cl)
    \/ \E cl \in Closures : WorkerRunPlainTask(cl)
    \/ WorkerCrash
    \/ WaitClose
    \/ ShutdownCancel
    \/ ShutdownClose
    \/ PoolWaitReturn
    \/ \E c \in Callers : GroupBuild(c)
    \/ \E c \in Callers : ExecuteAllAdd(c)
    \/ \E c \in Callers : ExecuteAllSubmit(c)
    \/ \E c \in Callers : ExecuteAllWait(c)
    \/ \E c \in Callers : SubmitAndWaitCall(c)
    \/ \E c \in Callers : SubmitCall(c)
    \/ \E c \in Callers : SubmitSelect(c)
    \/ \E c \in Callers : SubmitAndWaitReturn(c)

Spec == Init /\ [][Next]_vars

\* The service: concurrent AnalyzeWebpage calls on the pool of the service,
\* on which nothing calls Wait or Shutdown.
SvcInit ==
    /\ InitPool
    /\ InitCallers
    /\ InitUnits
    /\ web \in Webs

RequestStep(c) ==
    \/ AnalyzeCall(c)
    \/ CacheGetBegin(c)
    \/ AnalyzeLookup(c)
    \/ AnalyzeFetch(c)
    \/ AnalyzeParse(c)
    \/ ExecuteAllAdd(c)
    \/ ExecuteAllSubmit(c)
    \/ ExecuteAllWait(c)
    \/ AnalyzeCollect(c)
    \/ CacheSetBegin(c)
    \/ AnalyzeCache(c)

SvcNext ==
    \/ WorkerStep
    \/ ConcurrentMapFault
    \/ \E c \in Callers : RequestStep(c)

SvcSpec == SvcInit /\ [][SvcNext]_vars

\* The service under the scheduler's fairness: while some goroutine can take
\* a step, a step is taken.
LiveSvcSpec == SvcSpec /\ WF_vars(SvcNext)

(***************************************************************************)
(* The lifetime of a pool: one goroutine submits tasks, another calls Wait *)
(* and Shutdown more than once.                                            *)
(***************************************************************************)
\* Calls of Wait or Shutdown made on the pool over its lifetime.
MaxLifeCalls == 2

LifeNext ==
    \/ WorkerReceive
    \/ WorkerExitClosed
    \/ WorkerExitCancelled
    \/ \E cl \in Closures : WorkerRunPlainTask(cl)
    \/ WorkerCrash
    \/ WaitCloseWithin(MaxLifeCalls)
    \/ ShutdownCancelWithin(MaxLifeCalls)
    \/ ShutdownClose
    \/ PoolWaitReturn
    \/ SubmitCall(1)
    \/ SubmitSelect(1)

LifeSpec == Init /\ [][LifeNext]_vars

(***************************************************************************)
(* A task group on its own: one caller builds a group, runs ExecuteAll on  *)
(* a pool of one worker, and asks for results by name before and after.    *)
(***************************************************************************)
\* The names GetResult is asked for: those the groups use, and one that no
\* group has.
AskedNames == {TaskName(i) : i \in 1..MaxTasks} \cup {<<"nonexistent", 0>>}

\* group.GetResult(name), called on a new group, on a group that has its
\* tasks, and after ExecuteAll has returned.
GetResultCall(c, name) ==
    /\ ~crashed
    /\ \/ pc[c] = "idle"
       \/ pc[c] = "ExecuteAll" /\ idx[c] = 0
       \/ pc[c] = "executed"
    /\ got' = [at |-> pc[c], name |-> name, result |-> GetResult(tasks[c], name).result,
               error |-> GetResult(tasks[c], name).error]
    /\ UNCHANGED <<poolVars, callVars, svcVars, page, pageURL, extracted, httpReq, mock, httpResp,
                   handlerPc, histVars, before>>

GroupInit ==
    /\ InitPool
    /\ workers = 1
    /\ InitCallers
    /\ InitUnits
    /\ web = [u \in URLs |-> HTTPStatus(404)]

GroupNext ==
    \/ WorkerReceive
    \/ \E cl \in Closures : WorkerRunGroupTask(cl)
    \/ WorkerCrash
    \/ GroupBuild(1)
    \/ ExecuteAllAdd(1)
    \/ ExecuteAllSubmit(1)
    \/ ExecuteAllWait(1)
    \/ \E name \in AskedNames : GetResultCall(1, name)

GroupSpec == GroupInit /\ [][GroupNext]_vars

(***************************************************************************)
(* A service built by NewServiceWithDependencies: fetch, parser and pool   *)
(* are passed in, the cache field is left nil.                             *)
(***************************************************************************)
DepsInit ==
    /\ InitPool
    /\ kind = [c \in Callers |-> "none"]
    /\ pc = [c \in Callers |-> "idle"]
    /\ tasks = [c \in Callers |-> <<>>]
    /\ idx = [c \in Callers |-> 0]
    /\ wg = [c \in Callers |-> 0]
    /\ fn = [c \in Callers |-> "ok"]
    /\ resultChan = [c \in Callers |-> <<>>]
    /\ ret = [c \in Callers |-> Nil]
    /\ req = [c \in Callers |-> NoRequest]
    /\ cachePtr = "nil"
    /\ cache = EmptyMap
    /\ clock = 1
    /\ runs = [c \in Callers |-> <<>>]
    /\ outcome = [c \in Callers |-> <<>>]
    /\ trace = [c \in Callers |-> <<>>]
    /\ before = [c \in Callers |-> {}]
    /\ InitUnits
    /\ web \in Webs

DepsNext == \E c \in Callers : AnalyzeCall(c) \/ CacheGetBegin(c)

DepsSpec == DepsInit /\ [][DepsNext]_vars

(***************************************************************************)
(* The parser on its own: pages given by their markup, the tree the parse  *)
(* collaborator makes of each, and the five passes applied to it.          *)
(***************************************************************************)
\* An anchor without an href attribute.
NoHref == <<-1>>

\* An href with a form feed in its path.
FormFeedHref == <<104, 116, 116, 112, 115, 58, 47, 47, 97, 46, 105, 111, 47>> (* "https://a.io/" *) \o <<12 (* '\f' *)>>

\* Hrefs whose host has bytes outside ASCII: the byte 0xE2 escaped, which
\* is no UTF-8 encoding on its own, and so the byte 0xE9; the capital letter
\* U+00C9 escaped; the small letter U+00E9 written out.
EscapedHostHref == <<104, 116, 116, 112, 58, 47, 47, 97, 37, 69, 50, 46, 105, 111>> (* "http://a%E2.io" *)

EscapedByteHref == <<104, 116, 116, 112, 58, 47, 47, 37, 69, 57, 46, 105, 111>> (* "http://%E9.io" *)

EscapedCapitalHref == <<104, 116, 116, 112, 58, 47, 47, 37, 67, 51, 37, 56, 57, 46, 105, 111, 47, 120>> (* "http://%C3%89.io/x" *)

SmallLetterHref == <<104, 116, 116, 112, 58, 47, 47, 195, 169, 46, 105, 111>> (* "http://\xC3\xA9.io" *)

\* The hrefs of the anchors of a page.
Hrefs ==
    {NoHref, <<>>, <<106, 97, 118, 97, 115, 99, 114, 105, 112, 116, 58, 120>> (* "javascript:x" *), <<74, 97, 118, 97, 83, 99, 114, 105, 112, 116, 58, 120>> (* "JavaScript:x" *),
     <<47, 120>> (* "/x" *), <<120, 46, 104, 116, 109, 108>> (* "x.html" *), <<46, 46, 47, 120>> (* "../x" *), <<35, 116, 111, 112>> (* "#top" *), <<63, 113, 61, 49>> (* "?q=1" *),
     <<104, 116, 116, 112, 58, 47, 47, 98, 46, 105, 111>> (* "http://b.io" *), <<72, 84, 84, 80, 58, 47, 47, 65, 46, 73, 79, 58, 56, 48, 47, 121>> (* "HTTP://A.IO:80/y" *), <<104, 116, 116, 112, 115, 58, 47, 47, 97, 46, 105, 111, 47, 112>> (* "https://a.io/p" *), <<104, 116, 116, 112, 58, 47, 47, 115, 117, 98, 46, 97, 46, 105, 111>> (* "http://sub.a.io" *), <<104, 116, 116, 112, 58, 47, 47, 120, 97, 46, 105, 111>> (* "http://xa.io" *),
     <<47, 47, 97, 46, 105, 111, 47, 99, 100, 110>> (* "//a.io/cdn" *), <<47, 47, 66, 46, 73, 79, 47, 112>> (* "//B.IO/p" *),
     <<104, 116, 116, 112, 58, 47, 47, 98, 32, 105, 111>> (* "http://b io" *), <<104, 116, 116, 112, 115, 58, 47, 47, 97, 46, 105, 111, 58, 120>> (* "https://a.io:x" *), <<47, 47, 97, 32, 105, 111>> (* "//a io" *), FormFeedHref,
     EscapedHostHref, EscapedByteHref, EscapedCapitalHref, SmallLetterHref,
     <<109, 97, 105, 108, 116, 111, 58, 109>> (* "mailto:m" *), <<116, 101, 108, 58, 43, 49>> (* "tel:+1" *), <<102, 116, 112, 58, 47, 47, 97, 46, 105, 111, 47, 102>> (* "ftp://a.io/f" *)}

\* A page without a form.
NoForm == [pw |-> "none", attr |-> "none", text |-> "none", submit |-> "none", name |-> "none"]

\* The forms of a page, by what is in them:
\*   pw      an input whose type is this (and whose name is "pass"), or none
\*   attr    an attribute of the form element, or none
\*   text    a text in the form, or none
\*   submit  a submit control: a button with a label or an input, or none
\*   name    a text input with this name, or none
\* A form with none of them is an empty form element.
Forms ==
    [pw : {"none", "password", "PASSWORD", "text"},
     attr : {"none", "action=/login", "autocomplete=username", "class=search"},
     text : {"none", "Sign in to your account", "Subscribe"},
     submit : {"none", "button Login", "button Subscribe", "input"},
     name : {"none", "username", "comment"}]

Element(data, attr, parent) == [Type |-> "ElementNode", Data |-> data, Attr |-> attr, Parent |-> parent]

Text(data, parent) == [Type |-> "TextNode", Data |-> data, Attr |-> <<>>, Parent |-> parent]

Attribute(key, val) == [Key |-> key, Val |-> val]

\* The nodes of a form element that is node number at of its document and a
\* child of node parent.
FormNodes(f, at, parent) ==
    LET formAttr ==
            CASE f.attr = "action=/login" -> <<Attribute(<<97, 99, 116, 105, 111, 110>> (* "action" *), <<47, 108, 111, 103, 105, 110>> (* "/login" *))>>
              [] f.attr = "autocomplete=username" -> <<Attribute(<<97, 117, 116, 111, 99, 111, 109, 112, 108, 101, 116, 101>> (* "autocomplete" *), <<117, 115, 101, 114, 110, 97, 109, 101>> (* "username" *))>>
              [] f.attr = "class=search" -> <<Attribute(<<99, 108, 97, 115, 115>> (* "class" *), <<115, 101, 97, 114, 99, 104>> (* "search" *))>>
              [] OTHER -> <<>>
        text ==
            CASE f.text = "Sign in to your account" -> <<Text(<<83, 105, 103, 110, 32, 105, 110, 32, 116, 111, 32, 121, 111, 117, 114, 32, 97, 99, 99, 111, 117, 110, 116>> (* "Sign in to your account" *), at)>>
              [] f.text = "Subscribe" -> <<Text(<<83, 117, 98, 115, 99, 114, 105, 98, 101>> (* "Subscribe" *), at)>>
              [] OTHER -> <<>>
        named ==
            CASE f.name = "username" ->
                     <<Element(<<105, 110, 112, 117, 116>> (* "input" *), <<Attribute(<<116, 121, 112, 101>> (* "type" *), <<116, 101, 120, 116>> (* "text" *)), Attribute(<<110, 97, 109, 101>> (* "name" *), <<117, 115, 101, 114, 110, 97, 109, 101>> (* "username" *))>>, at)>>
              [] f.name = "comment" ->
                     <<Element(<<105, 110, 112, 117, 116>> (* "input" *), <<Attribute(<<116, 121, 112, 101>> (* "type" *), <<116, 101, 120, 116>> (* "text" *)), Attribute(<<110, 97, 109, 101>> (* "name" *), <<99, 111, 109, 109, 101, 110, 116>> (* "comment" *))>>, at)>>
              [] OTHER -> <<>>
        typed ==
            CASE f.pw = "password" ->
                     <<Element(<<105, 110, 112, 117, 116>> (* "input" *), <<Attribute(<<116, 121, 112, 101>> (* "type" *), <<112, 97, 115, 115, 119, 111, 114, 100>> (* "password" *)), Attribute(<<110, 97, 109, 101>> (* "name" *), <<112, 97, 115, 115>> (* "pass" *))>>, at)>>
              [] f.pw = "PASSWORD" ->
                     <<Element(<<105, 110, 112, 117, 116>> (* "input" *), <<Attribute(<<116, 121, 112, 101>> (* "type" *), <<80, 65, 83, 83, 87, 79, 82, 68>> (* "PASSWORD" *)), Attribute(<<110, 97, 109, 101>> (* "name" *), <<112, 97, 115, 115>> (* "pass" *))>>, at)>>
              [] f.pw = "text" ->
                     <<Element(<<105, 110, 112, 117, 116>> (* "input" *), <<Attribute(<<116, 121, 112, 101>> (* "type" *), <<116, 101, 120, 116>> (* "text" *)), Attribute(<<110, 97, 109, 101>> (* "name" *), <<112, 97, 115, 115>> (* "pass" *))>>, at)>>
              [] OTHER -> <<>>
        lead == <<Element(<<102, 111, 114, 109>> (* "form" *), formAttr, parent)>> \o text \o named \o typed
        button == at + Len(lead)
        control ==
            CASE f.submit = "button Login" ->
                     <<Element(<<98, 117, 116, 116, 111, 110>> (* "button" *), <<Attribute(<<116, 121, 112, 101>> (* "type" *), <<115, 117, 98, 109, 105, 116>> (* "submit" *))>>, at), Text(<<76, 111, 103, 105, 110>> (* "Login" *), button)>>
              [] f.submit = "button Subscribe" ->
                     <<Element(<<98, 117, 116, 116, 111, 110>> (* "button" *), <<Attribute(<<116, 121, 112, 101>> (* "type" *), <<115, 117, 98, 109, 105, 116>> (* "submit" *))>>, at), Text(<<83, 117, 98, 115, 99, 114, 105, 98, 101>> (* "Subscribe" *), button)>>
              [] f.submit = "input" ->
                     <<Element(<<105, 110, 112, 117, 116>> (* "input" *), <<Attribute(<<116, 121, 112, 101>> (* "type" *), <<115, 117, 98, 109, 105, 116>> (* "submit" *)), Attribute(<<118, 97, 108, 117, 101>> (* "value" *), <<76, 111, 103, 105, 110>> (* "Login" *))>>, at)>>
              [] OTHER -> <<>>
    IN  lead \o control

\* The anchors of a page: the first inside the form, if there is one, the
\* others in the body.
AnchorNodes(hrefs, form, body) ==
    [i \in 1..Len(hrefs) |->
        Element(<<97>> (* "a" *),
                IF hrefs[i] = NoHref THEN <<>> ELSE <<Attribute(<<104, 114, 101, 102>> (* "href" *), hrefs[i])>>,
                IF i = 1 /\ form # 0 THEN form ELSE body)]

\* A title element without a child: <title></title>.
NoText == <<-2>>

\* The text T between a form feed, a no-break space (U+00A0) and an em
\* space (U+2003) on the left and a vertical tab and a next-line character
\* (U+0085) on the right.
PaddedTitle == <<12 (* '\f' *)>> \o <<194, 160, 226, 128, 131>> (* "\xC2\xA0\xE2\x80\x83" *) \o <<84>> (* "T" *) \o <<11 (* '\v' *)>> \o <<194, 133>> (* "\xC2\x85" *)

\* The texts of the title elements of a page.
TitleTexts == {NoText, <<32>> (* " " *), <<84>> (* "T" *), <<32, 84, 32>> (* " T " *), <<83>> (* "S" *), PaddedTitle}

\* The title elements of a page, children of node head, the first of them
\* node number at of the document; each but the empty one has its text as
\* its only child.
RECURSIVE TitleNodes(_, _, _)
TitleNodes(titles, at, head) ==
    IF titles = <<>> THEN <<>>
    ELSE LET own == <<Element(<<116, 105, 116, 108, 101>> (* "title" *), <<>>, head)>>
                    \o (IF Head(titles) = NoText THEN <<>> ELSE <<Text(Head(titles), at)>>)
         IN  own \o TitleNodes(Tail(titles), at + Len(own), head)

\* ParseHTML of the page's markup, in document order: document, html, the
\* head with the titles, the body with the form and the anchors.
ParsedPage(p) ==
    LET head == <<[Type |-> "DocumentNode", Data |-> <<>>, Attr |-> <<>>, Parent |-> 0],
                  Element(<<104, 116, 109, 108>> (* "html" *), <<>>, 1), Element(<<104, 101, 97, 100>> (* "head" *), <<>>, 2)>>
                \o TitleNodes(p.titles, 4, 3)
        body == Len(head) + 1
        form == IF p.hasForm THEN FormNodes(p.form, body + 1, body) ELSE <<>>
        anchors == AnchorNodes(p.hrefs, IF p.hasForm THEN body + 1 ELSE 0, body)
    IN  head \o <<Element(<<98, 111, 100, 121>> (* "body" *), <<>>, 2)>> \o form \o anchors

\* Anchors on a page.
MaxAnchors == 2

HrefLists == UNION {[1..n -> Hrefs] : n \in 0..MaxAnchors}

\* A login form as sites have it.
UsualLoginForm ==
    [pw |-> "password", attr |-> "action=/login", text |-> "none", submit |-> "button Login",
     name |-> "username"]

\* Title elements on a page.
MaxTitles == 2

TitleLists == UNION {[1..n -> TitleTexts] : n \in 0..MaxTitles}

\* The pages: every form on a page without anchors, every list of anchors
\* on a page without a form and on a page with the usual login form, and
\* every list of titles on a page with neither.
Pages ==
    {[hasForm |-> TRUE, form |-> f, hrefs |-> <<>>, titles |-> <<>>] : f \in Forms}
    \cup {[hasForm |-> FALSE, form |-> NoForm, hrefs |-> h, titles |-> <<>>] : h \in HrefLists}
    \cup {[hasForm |-> TRUE, form |-> UsualLoginForm, hrefs |-> h, titles |-> <<<<84>> (* "T" *)>>] : h \in HrefLists}
    \cup {[hasForm |-> FALSE, form |-> NoForm, hrefs |-> <<>>, titles |-> t] : t \in TitleLists}

\* The URLs a page is served at: one does not parse, one has the small
\* letter U+00E9 escaped in its host, one the byte 0xE3.
PageURLs ==
    URLs \cup {<<72, 84, 84, 80, 83, 58, 47, 47, 65, 46, 73, 79, 58, 56, 52, 52, 51, 47>> (* "HTTPS://A.IO:8443/" *), <<104, 116, 116, 112, 58, 47, 47, 98, 32, 105, 111>> (* "http://b io" *), <<104, 116, 116, 112, 58, 47, 47, 37, 67, 51, 37, 65, 57, 46, 105, 111>> (* "http://%C3%A9.io" *), <<104, 116, 116, 112, 58, 47, 47, 97, 37, 69, 51, 46, 105, 111>> (* "http://a%E3.io" *)}

\* The five passes of htmlParser on the parsed page.
ExtractPage ==
    /\ extracted = Nil
    /\ extracted' =
           [HTMLVersion |-> ExtractHTMLVersion(ParsedPage(page)),
            PageTitle |-> ExtractPageTitle(ParsedPage(page)),
            Headings |-> ExtractHeadings(ParsedPage(page)),
            Links |-> ExtractLinks(ParsedPage(page), pageURL),
            HasLoginForm |-> ExtractLoginForm(ParsedPage(page))]
    /\ UNCHANGED <<poolVars, callVars, svcVars, page, pageURL, httpReq, mock, httpResp, handlerPc, got,
                   histVars, before>>

ParserInit ==
    /\ InitPool
    /\ workers = 1
    /\ InitCallers
    /\ web = [u \in URLs |-> HTTPStatus(404)]
    /\ page \in Pages
    /\ pageURL \in PageURLs
    /\ extracted = Nil
    /\ httpReq = Nil
    /\ mock = Nil
    /\ httpResp = Nil
    /\ handlerPc = "serving"
    /\ got = Nil

ParserNext == ExtractPage

ParserSpec == ParserInit /\ [][ParserNext]_vars

(***************************************************************************)
(* Handler.AnalyzeWebpage, in front of a service that answers as the mock  *)
(* of the handler tests does.                                              *)
(***************************************************************************)
Methods == {"POST", "GET", "PUT", "DELETE", "post"}

\* Request bodies, and what json.NewDecoder(r.Body).Decode(&req) makes of
\* each into an AnalysisRequest: [req, err].
Bodies ==
    {"{\"url\":\"http://a.io\"}", "{\"url\":\"https://b.io/p\"}", "{}",
     "", "invalid json", "{\"url\":5}", "[]"}

Decode(body) ==
    CASE body = "{\"url\":\"http://a.io\"}" -> [req |-> [URL |-> URL1], err |-> Nil]
      [] body = "{\"url\":\"https://b.io/p\"}" -> [req |-> [URL |-> URL2], err |-> Nil]
      [] body = "{}" -> [req |-> [URL |-> <<>>], err |-> Nil]
      [] body = "" -> [req |-> [URL |-> <<>>], err |-> [type |-> "error", v |-> "EOF"]]
      [] body = "{\"url\":5}" ->
             [req |-> [URL |-> <<>>],
              err |-> [type |-> "error",
                       v |-> "json: cannot unmarshal number into Go struct field AnalysisRequest.url of type string"]]
      [] body = "[]" ->
             [req |-> [URL |-> <<>>],
              err |-> [type |-> "error",
                       v |-> "json: cannot unmarshal array into Go value of type analyzer.AnalysisRequest"]]
      [] OTHER ->
             [req |-> [URL |-> <<>>],
              err |-> [type |-> "error",
                       v |-> "invalid character 'i' looking for beginning of value"]]

\* mockAnalyzerService: the fields analysisResult and analysisError, set when
\* the mock is built.  (calls is not a field of the mock: it counts the calls
\* of AnalyzeWebpage, for the properties.)
MockResult ==
    [NewAnalysis(<<>>, 0) EXCEPT !.HTMLVersion = <<72, 84, 77, 76, 53>> (* "HTML5" *), !.PageTitle = <<84, 101, 115, 116, 32, 80, 97, 103, 101>> (* "Test Page" *),
                                 !.Headings = (<<104, 49>> (* "h1" *) :> 1) @@ (<<104, 50>> (* "h2" *) :> 2),
                                 !.InternalLinks = 5, !.ExternalLinks = 3,
                                 !.InaccessibleLinks = 1, !.HasLoginForm = TRUE,
                                 !.ProcessingTime = "100ms"]

MockResults == <<Nil, MockResult>>

MockErrors ==
    <<Nil,
      AnalysisError(400, "Invalid URL", <<105, 110, 118, 97, 108, 105, 100, 45, 117, 114, 108>> (* "invalid-url" *)),
      AnalysisError(404, getHTTPStatusMessage(404), URL1),
      AnalysisError(0, "failed to fetch URL: connection refused", URL2),
      [type |-> "error", v |-> "context deadline exceeded"]>>

\* mockAnalyzerService.AnalyzeWebpage: the configured error if there is one,
\* else the configured result, whatever the request.
MockAnalyzeWebpage(m, r) ==
    IF ~IsNil(m.analysisError)
    THEN [analysis |-> Nil, err |-> m.analysisError]
    ELSE [analysis |-> m.analysisResult, err |-> Nil]

\* h.writeJSON(w, statusCode, data)
writeJSON(statusCode, data) ==
    [StatusCode |-> statusCode, ContentType |-> "application/json", Body |-> data]

\* h.writeError(w, statusCode, message): http.Error
writeError(statusCode, message) ==
    [StatusCode |-> statusCode, ContentType |-> "text/plain; charset=utf-8",
     Body |-> message \o "\n"]

\* A handler that answers an AnalysisError with the error's own status code.
ServeAnalyzeWithStatusOfError(r, m) ==
    IF r.Method # "POST"
    THEN [w |-> writeError(405, "Method not allowed"), calls |-> m.calls, panics |-> FALSE]
    ELSE IF ~IsNil(Decode(r.Body).err)
    THEN [w |-> writeError(400, "Invalid request body"), calls |-> m.calls, panics |-> FALSE]
    ELSE LET a == MockAnalyzeWebpage(m, Decode(r.Body).req)
         IN  IF ~IsNil(a.err)
             THEN IF a.err.type = "AnalysisError"
                  THEN [w |-> writeJSON(a.err.v.StatusCode, a.err.v), calls |-> m.calls + 1,
                        panics |-> FALSE]
                  ELSE [w |-> writeError(500, "Internal server error"), calls |-> m.calls + 1,
                        panics |-> FALSE]
             ELSE [w |-> writeJSON(200, a.analysis), calls |-> m.calls + 1,
                   panics |-> a.analysis = Nil]

\* Handler.AnalyzeWebpage: what it writes, how many calls of the service
\* there have been when it ends, and whether it ends in a panic: after it has
\* written the record it reads the record's fields for the log, a nil
\* pointer dereference when the service returned a nil record with a nil error.
ServeAnalyze(r, m) ==
    IF r.Method # "POST"
    THEN [w |-> writeError(405, "Method not allowed"), calls |-> m.calls, panics |-> FALSE]
    ELSE IF ~IsNil(Decode(r.Body).err)
    THEN [w |-> writeError(400, "Invalid request body"), calls |-> m.calls, panics |-> FALSE]
    ELSE LET a == MockAnalyzeWebpage(m, Decode(r.Body).req)
         IN  IF ~IsNil(a.err)
             THEN IF a.err.type = "AnalysisError"
                  THEN [w |-> writeJSON(400, a.err.v), calls |-> m.calls + 1, panics |-> FALSE]
                  ELSE [w |-> writeError(500, "Internal server error"), calls |-> m.calls + 1,
                        panics |-> FALSE]
             ELSE [w |-> writeJSON(200, a.analysis), calls |-> m.calls + 1,
                   panics |-> a.analysis = Nil]

HandlerAnalyzeWebpage ==
    /\ handlerPc = "serving"
    /\ httpReq # Nil
    /\ httpResp' = ServeAnalyze(httpReq, mock).w
    /\ mock' = [mock EXCEPT !.calls = ServeAnalyze(httpReq, mock).calls]
    /\ handlerPc' = IF ServeAnalyze(httpReq, mock).panics THEN "panicked" ELSE "returned"
    /\ UNCHANGED <<poolVars, callVars, svcVars, page, pageURL, extracted, httpReq, got, histVars, before>>

\* One request to a new handler: httptest.NewRequest(method, "/api/analyze", body)
HandlerInit ==
    /\ InitPool
    /\ InitCallers
    /\ web = [u \in URLs |-> HTTPStatus(404)]
    /\ page = Nil
    /\ pageURL = <<>>
    /\ extracted = Nil
    /\ httpReq \in [Method : Methods, Body : Bodies]
    /\ \E i \in 1..Len(MockResults), j \in 1..Len(MockErrors) :
           mock = [analysisResult |-> MockResults[i], analysisError |-> MockErrors[j], calls |-> 0]
    /\ httpResp = Nil
    /\ handlerPc = "serving"
    /\ got = Nil

HandlerNext == HandlerAnalyzeWebpage

HandlerSpec == HandlerInit /\ [][HandlerNext]_vars

(***************************************************************************)
(* The claims.                                                             *)
(***************************************************************************)
\* How many elements of seq are x.
CountIn(seq, x) == Cardinality({k \in 1..Len(seq) : seq[k] = x})

\* The copies of closure cl the pool holds, queued or in a worker's hands.
Held(cl) == CopiesIn(cl, running) + CountIn(taskQueue, cl)

\* What the function of task i of caller c's group does when it is called.
TaskOutcome(c, i) == CallTask(tasks[c][i].Task, req[c].doc, req[c].URL)

\* Entry i of caller c's group holds the pair its own task returns.
OwnPairStored(c, i) ==
    /\ tasks[c][i].Result = TaskOutcome(c, i).result
    /\ tasks[c][i].Error = TaskOutcome(c, i).error

\* Entry i of caller c's group holds the pair AddTask gave it.
NothingStored(c, i) == IsNil(tasks[c][i].Result) /\ IsNil(tasks[c][i].Error)

\* C1: when ExecuteAll has returned, every task of the group has run: none
\* is still queued or in a worker's hands, none was dropped, and the
\* (Result, Error) pair each task returned is in that task's own entry.
C1_ExecuteAllReturnsAfterAllTasks ==
    \A c \in Callers :
        (kind[c] = "group" /\ pc[c] = "executed") =>
            \A i \in 1..Len(tasks[c]) :
                /\ runs[c][i] = 1
                /\ Held(Closure(c, i)) = 0
                /\ ~TaskOutcome(c, i).panics => OwnPairStored(c, i)

\* C1 witness: ExecuteAll has returned for a group of several tasks, one of
\* which returned an error, on a pool of several workers.
C1_Witness ==
    \E c \in Callers :
        /\ kind[c] = "group" /\ pc[c] = "executed"
        /\ Len(tasks[c]) > 1
        /\ workers > 1
        /\ \E i \in 1..Len(tasks[c]) : ~IsNil(tasks[c][i].Error)

\* C2: every closure handed to the pool is, in total, at most once queued,
\* in a worker's hands or run; one the queue accepted is exactly once so (it
\* is never skipped or run twice); and an entry of a group holds nothing
\* until its own closure has run, and then the pair of its own task.
C2_EachTaskRunsOnceForItsOwner ==
    \A c \in Callers :
        \A i \in 1..Len(runs[c]) :
            /\ runs[c][i] + Held(Closure(c, i)) <= 1
            /\ (i <= Len(outcome[c]) /\ outcome[c][i].o = "sent") =>
                   runs[c][i] + Held(Closure(c, i)) = 1
            /\ kind[c] = "group" =>
                   IF runs[c][i] = 1 /\ ~TaskOutcome(c, i).panics
                   THEN OwnPairStored(c, i)
                   ELSE NothingStored(c, i)

\* C2 witness: two groups share the pool at the same time, each with one
\* task run and another in the pool.
C2_Witness ==
    \E c1, c2 \in Callers :
        /\ c1 # c2
        /\ \A c \in {c1, c2} :
               /\ kind[c] = "group" /\ Len(tasks[c]) > 1
               /\ runs[c][1] = 1 /\ ~NothingStored(c, 1)
               /\ Held(Closure(c, 2)) = 1

\* C4: after ExecuteAll, every task of the group has run whatever the others
\* returned; GetResult gives, for the name of each task, the pair that task
\* returned (the error for a failing task only, the result and a nil error
\* for the others); HasErrors is true exactly when a task returned an error.
C4_ErrorOfOneTaskStaysItsOwn ==
    \A c \in Callers :
        (kind[c] = "group" /\ pc[c] = "executed") =>
            /\ \A i \in 1..Len(tasks[c]) :
                   /\ runs[c][i] = 1
                   /\ ~TaskOutcome(c, i).panics =>
                          GetResult(tasks[c], tasks[c][i].Name) =
                              [result |-> TaskOutcome(c, i).result,
                               error |-> TaskOutcome(c, i).error]
            /\ HasErrors(tasks[c]) <=>
                   \E i \in 1..Len(tasks[c]) :
                       ~TaskOutcome(c, i).panics /\ ~IsNil(TaskOutcome(c, i).error)

\* C4 witness: ExecuteAll has returned for a group whose first task succeeded
\* and whose second task returned an error.
C4_Witness ==
    \E c \in Callers :
        /\ kind[c] = "group" /\ pc[c] = "executed"
        /\ Len(tasks[c]) > 1
        /\ IsNil(tasks[c][1].Error) /\ ~IsNil(tasks[c][1].Result)
        /\ ~IsNil(tasks[c][2].Error)

\* C5: a task of a group that panics is contained: the process goes on, and
\* once the task has run its failure is recorded in its own entry.
C5_PanicOfATaskIsContained ==
    /\ ~crashed
    /\ \A c \in Callers :
           kind[c] = "group" =>
               \A i \in 1..Len(tasks[c]) :
                   (runs[c][i] = 1 /\ TaskOutcome(c, i).panics) => ~IsNil(tasks[c][i].Error)

\* C7: Submit never faults, and once the pool has begun shutting down it
\* returns with the task dropped.
C7_SubmitNeverFaults ==
    \A c \in Callers :
        \A k \in 1..Len(outcome[c]) :
            /\ outcome[c][k].o # "panic"
            /\ outcome[c][k].late => outcome[c][k].o = "dropped"

\* C8: when Wait or Shutdown has returned, every task the queue accepted
\* before the pool began shutting down has been executed.
C8_AcceptedTasksAreExecuted ==
    ctl.returned # <<>> =>
        \A c \in Callers :
            \A i \in 1..Len(outcome[c]) :
                (outcome[c][i].o = "sent" /\ ~outcome[c][i].late) => runs[c][i] = 1

\* C9: when SubmitAndWait has returned, its own task has run, once, and the
\* value returned is the error that task returned.
C9_SubmitAndWaitReturnsOwnError ==
    \A c \in Callers :
        (kind[c] = "wait" /\ pc[c] = "returned") =>
            /\ runs[c][1] = 1
            /\ Held(Closure(c, 1)) = 0
            /\ ret[c] = CallFunc(fn[c], c).error

\* C9 witness: SubmitAndWait has returned the error of its task while a task
\* of another caller is in the pool.
C9_Witness ==
    \E c, d \in Callers :
        /\ c # d
        /\ kind[c] = "wait" /\ pc[c] = "returned" /\ ~IsNil(ret[c])
        /\ Len(runs[d]) > 0 /\ Held(Closure(d, 1)) = 1

\* The record's extraction fields when the five passes are run one after
\* another on doc, for a page at url.
SequentialFields ==
    [doc \in Docs, url \in URLs |->
        [HTMLVersion |-> ExtractHTMLVersion(Document(doc)),
         PageTitle |-> ExtractPageTitle(Document(doc)),
         Headings |-> ExtractHeadings(Document(doc)),
         InternalLinks |-> ExtractLinks(Document(doc), url).internal,
         ExternalLinks |-> ExtractLinks(Document(doc), url).external,
         InaccessibleLinks |-> ExtractLinks(Document(doc), url).inaccessible,
         HasLoginForm |-> ExtractLoginForm(Document(doc))]]

\* The same fields of a record.
ExtractionFields(a) ==
    [HTMLVersion |-> a.HTMLVersion, PageTitle |-> a.PageTitle, Headings |-> a.Headings,
     InternalLinks |-> a.InternalLinks, ExternalLinks |-> a.ExternalLinks,
     InaccessibleLinks |-> a.InaccessibleLinks, HasLoginForm |-> a.HasLoginForm]

\* The phases a request has entered include p.
Entered(c, p) == \E k \in 1..Len(trace[c]) : trace[c][k] = p

\* C3: in a request, each pass writes its own task entry and no other (an
\* entry is empty until its own pass has run and then holds that pass's
\* value), the document stays the one the parse returned, and the record
\* collected from the concurrent passes has the html_version, page_title,
\* headings, link counts and has_login_form of the passes run in sequence.
C3_ConcurrentPassesEqualSequential ==
    \A c \in Callers :
        (kind[c] = "analyze" /\ Entered(c, "Dispatching")) =>
            /\ \A i \in 1..Len(tasks[c]) :
                   IF runs[c][i] = 0 THEN NothingStored(c, i)
                   ELSE runs[c][i] = 1 /\ OwnPairStored(c, i)
            /\ req[c].doc = web[req[c].URL].body.doc
            /\ Entered(c, "Caching") =>
                   ExtractionFields(req[c].analysis) = SequentialFields[req[c].doc, req[c].URL]

\* C3 witness: a request has collected its record, with headings, links and
\* a login form found, on a pool of several workers, while the other request
\* has passes in the pool.
C3_Witness ==
    \E c, d \in Callers :
        /\ c # d
        /\ workers > 1
        /\ kind[c] = "analyze" /\ Entered(c, "Caching")
        /\ req[c].analysis.HasLoginForm
        /\ req[c].analysis.InternalLinks > 0
        /\ DOMAIN req[c].analysis.Headings # {}
        /\ kind[d] = "analyze" /\ pc[d] = "Dispatching" /\ \E i \in 1..Len(tasks[d]) : runs[d][i] = 1

\* C6: a request whose extraction has started reaches Done, and never
\* Failed.
C6_StartedExtractionCompletes ==
    /\ \A c \in Callers : (pc[c] = "Dispatching") ~> (pc[c] = "Done")
    /\ [](\A c \in Callers : Entered(c, "Dispatching") => pc[c] # "Failed")

\* The phases of a request that misses the cache, in order.
PhaseOrder == <<"Fetching", "Parsing", "Dispatching", "Collecting", "Caching", "Done">>

IsPrefix(s, t) == Len(s) <= Len(t) /\ \A k \in 1..Len(s) : s[k] = t[k]

\* The phase a request is in: it is in Caching while it writes the cache and
\* in Dispatching while it stands in a Submit of ExecuteAll.
Phase(c) ==
    CASE pc[c] = "Setting" -> "Caching"
      [] pc[c] = "ExecuteAllSubmit" -> "Dispatching"
      [] OTHER -> pc[c]

\* The phases of a request so far are a legal path, and its position is the
\* last of them.
PhasesInOrder(c) ==
    /\ \/ IsPrefix(trace[c], PhaseOrder)
       \/ trace[c] = <<"Cached">>
       \/ trace[c] = <<"Fetching", "Failed">>
       \/ trace[c] = <<"Fetching", "Parsing", "Failed">>
    /\ trace[c] # <<>> =>
           Phase(c) = (IF trace[c] = <<"Cached">> THEN "Done" ELSE trace[c][Len(trace[c])])

\* A failed request has parsed nothing, built and dispatched no task and
\* written no cache entry.
FailedDidNothingMore(c) ==
    pc[c] = "Failed" =>
        /\ req[c].doc = NoDocument /\ IsNil(req[c].analysis)
        /\ tasks[c] = <<>> /\ outcome[c] = <<>>
        /\ req[c].URL \notin DOMAIN cache

\* A step leaves a failed request as it is, and writes the cache only for a
\* request that is in its Caching phase.
FailedIsAbsorbing ==
    /\ \A c \in Callers :
           pc[c] = "Failed" =>
               /\ pc'[c] = "Failed" /\ trace'[c] = trace[c]
               /\ req'[c] = req[c] /\ tasks'[c] = tasks[c] /\ ret'[c] = ret[c]
    /\ cache' # cache => \E c \in Callers : Phase(c) = "Caching" /\ pc'[c] = "Done"

\* C10: every request that misses the cache goes through Fetching, Parsing,
\* Dispatching, Collecting, Caching, Done in that order, none skipped or
\* repeated; Failed follows Fetching or Parsing only, and a failed request
\* takes no further step.
C10_PhasesInOrderFailedAbsorbing ==
    /\ [](\A c \in Callers : kind[c] = "analyze" => PhasesInOrder(c) /\ FailedDidNothingMore(c))
    /\ [][FailedIsAbsorbing]_vars

\* C10 witness: one request is Done after all six phases and the other has
\* failed in Parsing.
C10_Witness ==
    \E c, d \in Callers :
        /\ trace[c] = PhaseOrder
        /\ trace[d] = <<"Fetching", "Parsing", "Failed">>

\* What the fetch and parse collaborators make of a URL fails the call.
FailsFor(u) ==
    \/ ~IsNil(web[u].err)
    \/ web[u].statusCode # 200
    \/ ~IsNil(web[u].body.parseErr)

\* A call of AnalyzeWebpage has returned.
Returned(c) == kind[c] = "analyze" /\ pc[c] \in {"Done", "Failed"}

\* C11: a call whose fetch returns an error or a status other than 200, or
\* whose parse fails, ends Failed and never gets to the extraction; a failed
\* call returns no record and an AnalysisError with the URL of the request and
\* the status code the fetch collaborator reported; no call returns both a
\* record and an error.
C11_FailureReturnsNilAndAnalysisError ==
    \A c \in Callers :
        /\ (kind[c] = "analyze" /\ FailsFor(req[c].URL)) =>
               (~Entered(c, "Dispatching") /\ pc[c] # "Done")
        /\ (kind[c] = "analyze" /\ pc[c] = "Failed") =>
               /\ FailsFor(req[c].URL)
               /\ ret[c].analysis = Nil
               /\ ret[c].err.type = "AnalysisError"
               /\ ret[c].err.v.URL = req[c].URL
               /\ ret[c].err.v.StatusCode = web[req[c].URL].statusCode
        /\ Returned(c) => (ret[c].analysis = Nil) # (ret[c].err = Nil)

\* C11 witness: one call failed on a fetch error reported with status 0, the
\* other on the status 404.
C11_Witness ==
    \E c, d \in Callers :
        /\ pc[c] = "Failed" /\ ~IsNil(web[req[c].URL].err) /\ ret[c].err.v.StatusCode = 0
        /\ pc[d] = "Failed" /\ IsNil(web[req[d].URL].err) /\ ret[d].err.v.StatusCode = 404

\* The calls of the fetch collaborator made for a URL so far.
FetchCalls(u) ==
    Cardinality({c \in Callers :
        /\ kind[c] = "analyze" /\ req[c].URL = u
        /\ Len(trace[c]) >= 2 /\ trace[c][1] = "Fetching"})

\* C13: once a call for a URL has returned a record, a call with the same URL
\* that begins later returns that record without fetching, parsing or using
\* the pool, and the fetch collaborator has been called once for the URL in
\* total; a call served from the cache had a call with exactly its URL
\* before it.
C13_LaterCallsServedFromCache ==
    /\ \A d \in Callers : \A c \in before[d] :
           (req[c].URL = req[d].URL /\ Returned(d)) =>
               /\ ret[d] = ret[c]
               /\ trace[d] = <<"Cached">>
               /\ tasks[d] = <<>> /\ outcome[d] = <<>>
    /\ \A c \in Callers :
           (kind[c] = "analyze" /\ pc[c] = "Done") => FetchCalls(req[c].URL) = 1
    /\ \A d \in Callers :
           trace[d] = <<"Cached">> =>
               \E c \in Callers \ {d} : req[c].URL = req[d].URL /\ trace[c] = PhaseOrder

\* C14: no two calls are inside the cache map at once when one of them
\* writes it.
C14_CacheAccessesAreExclusive ==
    \A c, d \in Callers : (c # d /\ pc[c] = "Setting") => ~InMap(d)

\* A step that changes the cache is the return of Set in a call that went
\* through Collecting: it writes that call's record under that call's URL and
\* keeps every other entry.
CacheWrittenByCollectedCall ==
    cache' # cache =>
        \E c \in Callers :
            /\ pc[c] = "Setting" /\ pc'[c] = "Done"
            /\ trace[c] = <<"Fetching", "Parsing", "Dispatching", "Collecting", "Caching">>
            /\ cache' = (req[c].URL :> req[c].analysis) @@ cache

\* A step in which a call fails or is served from the cache leaves the cache
\* as it is.
FailureAndHitWriteNothing ==
    \A c \in Callers :
        ((pc[c] # "Failed" /\ pc'[c] = "Failed") \/ (trace[c] = <<>> /\ trace'[c] = <<"Cached">>))
            => cache' = cache

\* C15: the cache is written only by a call that has completed Collecting,
\* under that call's URL; a failing call and a cache hit write nothing; an
\* entry, once written, stays.
C15_CacheWrittenOnlyAfterCollecting ==
    [][/\ CacheWrittenByCollectedCall
       /\ FailureAndHitWriteNothing
       /\ DOMAIN cache \subseteq DOMAIN cache']_vars

\* C15 witness: the cache holds the records of two calls for different URLs.
C15_Witness ==
    \E c, d \in Callers :
        /\ req[c].URL # req[d].URL
        /\ trace[c] = PhaseOrder /\ trace[d] = PhaseOrder
        /\ cache = (req[c].URL :> ret[c].analysis) @@ (req[d].URL :> ret[d].analysis)

\* C12: the case of the claim, a pass whose result is missing from the task
\* group or whose task stored an error, does not arise in a call of
\* AnalyzeWebpage: when a call collects, each of the five passes has a task
\* in its group, with a result and a nil error.
C12_EveryPassHasStoredItsResult ==
    \A c \in Callers :
        pc[c] = "Collecting" =>
            \A i \in 1..Len(PassNames) :
                \E k \in 1..Len(tasks[c]) :
                    /\ tasks[c][k].Name = PassNames[i]
                    /\ ~IsNil(tasks[c][k].Result)
                    /\ IsNil(tasks[c][k].Error)

\* The request bodies that are no JSON object with a string url.
UndecodableBodies == {"", "invalid json", "{\"url\":5}", "[]"}

\* C16: the handler answers 405 to a method other than POST and 400 to a
\* body that cannot be decoded, without calling the service; otherwise it
\* calls the service once and answers 400 with the error as JSON when the
\* service returns an AnalysisError (whatever status code the error
\* carries), 500 for another error, and 200 with the record for a record.
C16_HandlerStatusCodes ==
    httpResp # Nil =>
        IF httpReq.Method # "POST" THEN httpResp.StatusCode = 405 /\ mock.calls = 0
        ELSE IF httpReq.Body \in UndecodableBodies THEN httpResp.StatusCode = 400 /\ mock.calls = 0
        ELSE /\ mock.calls = 1
             /\ CASE mock.analysisError.type = "AnalysisError" ->
                         /\ httpResp.StatusCode = 400
                         /\ httpResp.ContentType = "application/json"
                         /\ httpResp.Body = mock.analysisError.v
                    [] mock.analysisError.type = "error" -> httpResp.StatusCode = 500
                    [] IsNil(mock.analysisError) /\ mock.analysisResult # Nil ->
                         /\ httpResp.StatusCode = 200
                         /\ httpResp.ContentType = "application/json"
                         /\ httpResp.Body = mock.analysisResult
                         /\ handlerPc = "returned"
                    [] OTHER -> TRUE

\* C16 witness: an AnalysisError with status code 404 for another URL than
\* the request's was answered with 400 and the error, status_code 404, as
\* the body.
C16_Witness ==
    /\ httpResp # Nil
    /\ httpReq.Method = "POST" /\ httpReq.Body = "{\"url\":\"https://b.io/p\"}"
    /\ mock.analysisError.type = "AnalysisError" /\ mock.analysisError.v.StatusCode = 404
    /\ mock.calls = 1
    /\ httpResp.StatusCode = 400 /\ httpResp.Body.StatusCode = 404 /\ httpResp.Body.URL = URL1

\* C17: the three link counters add up to the number of anchor elements of
\* the page, for every page and page URL.
C17_LinkCountersSumToAnchors ==
    extracted # Nil =>
        /\ extracted.Links.internal + extracted.Links.external + extracted.Links.inaccessible
               = Len(page.hrefs)
        /\ extracted.Links.internal >= 0
        /\ extracted.Links.external >= 0
        /\ extracted.Links.inaccessible >= 0

\* C17 witness: a page with two anchors, a javascript: link counted
\* inaccessible and another link that is not.
C17_Witness ==
    /\ extracted # Nil
    /\ Len(page.hrefs) = 2 /\ page.hrefs[1] = <<106, 97, 118, 97, 115, 99, 114, 105, 112, 116, 58, 120>> (* "javascript:x" *) /\ page.hrefs[2] = <<104, 116, 116, 112, 58, 47, 47, 98, 46, 105, 111>> (* "http://b.io" *)
    /\ extracted.Links.inaccessible = 1

\* The form has an input whose type is password, in any letter case.
FormHasPasswordInput(p) == p.hasForm /\ p.form.pw \in {"password", "PASSWORD"}

\* The form has one of the five signals that corroborate a password input:
\* a login pattern in an attribute of the form, a login autocomplete value,
\* a login phrase in its text, login wording on a submit button, a login
\* keyword in the name of an input.
FormHasOtherSignal(p) ==
    /\ p.hasForm
    /\ \/ p.form.attr \in {"action=/login", "autocomplete=username"}
       \/ p.form.text = "Sign in to your account"
       \/ p.form.submit = "button Login"
       \/ p.form.name = "username"

\* C18: a page has a login form exactly if its form has a password input and
\* one of the five other signals; a password input alone does not make one.
C18_LoginFormNeedsSecondSignal ==
    extracted # Nil =>
        (extracted.HasLoginForm <=> (FormHasPasswordInput(page) /\ FormHasOtherSignal(page)))

\* C19: without a password input in its form a page has no login form,
\* whatever else the form holds.
C19_NoPasswordInputNoLoginForm ==
    (extracted # Nil /\ ~FormHasPasswordInput(page)) => ~extracted.HasLoginForm

\* C19 witness: a form with the login action, a field named username and a
\* Login button, but a text input where the password would be, is no login
\* form.
C19_Witness ==
    /\ extracted # Nil
    /\ page.hasForm
    /\ page.form = [pw |-> "text", attr |-> "action=/login", text |-> "Sign in to your account",
                    submit |-> "button Login", name |-> "username"]
    /\ ~extracted.HasLoginForm

\* C20: a form with a password input and nothing else that matches (no
\* attribute, no text, no submit control, the input named "pass") is a login
\* form.
C20_PasswordInputAloneIsLoginForm ==
    (extracted # Nil /\ FormHasPasswordInput(page) /\ ~FormHasOtherSignal(page))
        => extracted.HasLoginForm

\* C20 witness: the form that holds the password input only.
C20_Witness ==
    /\ extracted # Nil
    /\ page.hasForm
    /\ page.form = [NoForm EXCEPT !.pw = "password"]
    /\ extracted.HasLoginForm

\* The hrefs by their shape, as the classification rules name them.
MissingHrefs == {NoHref, <<>>}

ScriptHrefs == {<<106, 97, 118, 97, 115, 99, 114, 105, 112, 116, 58, 120>> (* "javascript:x" *), <<74, 97, 118, 97, 83, 99, 114, 105, 112, 116, 58, 120>> (* "JavaScript:x" *)}

RelativeHrefs == {<<47, 120>> (* "/x" *), <<120, 46, 104, 116, 109, 108>> (* "x.html" *), <<46, 46, 47, 120>> (* "../x" *), <<35, 116, 111, 112>> (* "#top" *), <<63, 113, 61, 49>> (* "?q=1" *)}

SpecialHrefs == {<<109, 97, 105, 108, 116, 111, 58, 109>> (* "mailto:m" *), <<116, 101, 108, 58, 43, 49>> (* "tel:+1" *), <<102, 116, 112, 58, 47, 47, 97, 46, 105, 111, 47, 102>> (* "ftp://a.io/f" *)}

\* The hrefs that url.Parse rejects: a space in the host, a port that is not
\* a number, a control byte.
UnparsableHrefs == {<<104, 116, 116, 112, 58, 47, 47, 98, 32, 105, 111>> (* "http://b io" *), <<104, 116, 116, 112, 115, 58, 47, 47, 97, 46, 105, 111, 58, 120>> (* "https://a.io:x" *), <<47, 47, 97, 32, 105, 111>> (* "//a io" *), FormFeedHref}

\* The host name, in lower case, of each href that starts with http://,
\* https:// or // and parses.
WebHost ==
    (<<104, 116, 116, 112, 58, 47, 47, 98, 46, 105, 111>> (* "http://b.io" *) :> "b.io") @@ (<<72, 84, 84, 80, 58, 47, 47, 65, 46, 73, 79, 58, 56, 48, 47, 121>> (* "HTTP://A.IO:80/y" *) :> "a.io") @@ (<<104, 116, 116, 112, 115, 58, 47, 47, 97, 46, 105, 111, 47, 112>> (* "https://a.io/p" *) :> "a.io")
    @@ (<<104, 116, 116, 112, 58, 47, 47, 115, 117, 98, 46, 97, 46, 105, 111>> (* "http://sub.a.io" *) :> "sub.a.io") @@ (<<104, 116, 116, 112, 58, 47, 47, 120, 97, 46, 105, 111>> (* "http://xa.io" *) :> "xa.io")
    @@ (<<47, 47, 97, 46, 105, 111, 47, 99, 100, 110>> (* "//a.io/cdn" *) :> "a.io") @@ (<<47, 47, 66, 46, 73, 79, 47, 112>> (* "//B.IO/p" *) :> "b.io")
    @@ (EscapedHostHref :> "a(0xE2).io") @@ (EscapedByteHref :> "(0xE9).io")
    @@ (EscapedCapitalHref :> "(U+00E9).io") @@ (SmallLetterHref :> "(U+00E9).io")

\* The host name, in lower case, of each page URL; the one that does not
\* parse has none.
PageHost ==
    (URL1 :> "a.io") @@ (URL2 :> "b.io") @@ (<<72, 84, 84, 80, 83, 58, 47, 47, 65, 46, 73, 79, 58, 56, 52, 52, 51, 47>> (* "HTTPS://A.IO:8443/" *) :> "a.io")
    @@ (<<104, 116, 116, 112, 58, 47, 47, 98, 32, 105, 111>> (* "http://b io" *) :> "none") @@ (<<104, 116, 116, 112, 58, 47, 47, 37, 67, 51, 37, 65, 57, 46, 105, 111>> (* "http://%C3%A9.io" *) :> "(U+00E9).io")
    @@ (<<104, 116, 116, 112, 58, 47, 47, 97, 37, 69, 51, 46, 105, 111>> (* "http://a%E3.io" *) :> "a(0xE3).io")

\* The anchors of the page whose href is in set S.
AnchorsIn(S) == Cardinality({i \in 1..Len(page.hrefs) : page.hrefs[i] \in S})

\* At least n anchors of the page are counted in class cls and at most the
\* others in the two other classes.
CountedAs(cls, n) ==
    LET l == extracted.Links
        total == l.internal + l.external + l.inaccessible
    IN  /\ l[cls] >= n
        /\ total - l[cls] <= Len(page.hrefs) - n

\* C21: an anchor without href, with an empty href or with a javascript:
\* href in any letter case is counted inaccessible and in no other class,
\* for every page URL, inside and outside a form and next to any other
\* anchor.
C21_MissingEmptyScriptInaccessible ==
    extracted # Nil => CountedAs("inaccessible", AnchorsIn(MissingHrefs \cup ScriptHrefs))

\* C21 witness: a page whose two anchors are JavaScript:x, inside a form,
\* and an anchor without href; both are counted inaccessible.
C21_Witness ==
    /\ extracted # Nil
    /\ page.hasForm
    /\ page.hrefs = <<<<74, 97, 118, 97, 83, 99, 114, 105, 112, 116, 58, 120>> (* "JavaScript:x" *), NoHref>>
    /\ extracted.Links = [internal |-> 0, external |-> 0, inaccessible |-> 2]

\* C22: an anchor whose href fails URL parsing is counted inaccessible and
\* never external, also when the href starts with http://, https:// or //.
C22_UnparsableHrefInaccessible ==
    extracted # Nil => CountedAs("inaccessible", AnchorsIn(UnparsableHrefs))

\* The anchors with an http://, https:// or // href whose host is, or is
\* not, the host of the page.
SameHostHrefs == {h \in DOMAIN WebHost : WebHost[h] = PageHost[pageURL]}

OtherHostHrefs == {h \in DOMAIN WebHost : WebHost[h] # PageHost[pageURL]}

\* C23: an http://, https:// or // href is internal exactly if its host
\* name is the page's, letter case, scheme and port ignored; a subdomain, a
\* longer name ending in the page's host and a name that differs from the
\* page's in a byte that is no letter are external like any other host.
C23_SameHostInternalElseExternal ==
    extracted # Nil =>
        /\ CountedAs("internal", AnchorsIn(SameHostHrefs))
        /\ CountedAs("external", AnchorsIn(OtherHostHrefs))
        /\ AnchorsIn(DOMAIN WebHost) = Len(page.hrefs) =>
               /\ extracted.Links.internal = AnchorsIn(SameHostHrefs)
               /\ extracted.Links.external = AnchorsIn(OtherHostHrefs)

\* C24: a non-empty href without scheme and without leading // is counted
\* internal, for every page URL.
C24_RelativeHrefInternal ==
    extracted # Nil => CountedAs("internal", AnchorsIn(RelativeHrefs))

\* C24 witness: a fragment and a ../ path on the page whose URL does not
\* parse, both internal.
C24_Witness ==
    /\ extracted # Nil
    /\ pageURL = <<104, 116, 116, 112, 58, 47, 47, 98, 32, 105, 111>> (* "http://b io" *)
    /\ page.hrefs = <<<<35, 116, 111, 112>> (* "#top" *), <<46, 46, 47, 120>> (* "../x" *)>>
    /\ extracted.Links = [internal |-> 2, external |-> 0, inaccessible |-> 0]

\* C25: a mailto:, tel: or ftp:// href is counted external, for every page
\* URL.
C25_SpecialProtocolExternal ==
    extracted # Nil => CountedAs("external", AnchorsIn(SpecialHrefs))

\* The text of a title element, trimmed of surrounding white space.
TrimmedTitle ==
    (NoText :> <<>>) @@ (<<32>> (* " " *) :> <<>>) @@ (<<84>> (* "T" *) :> <<84>> (* "T" *)) @@ (<<32, 84, 32>> (* " T " *) :> <<84>> (* "T" *)) @@ (<<83>> (* "S" *) :> <<83>> (* "S" *))
    @@ (PaddedTitle :> <<84>> (* "T" *))

\* C26: the page title is the trimmed text of the first title element of
\* the document, and empty when that element is empty or white space, also
\* when a later title element has text; a page without title has the empty
\* title.
C26_TitleOfFirstTitleElement ==
    extracted # Nil =>
        extracted.PageTitle = IF page.titles = <<>> THEN <<>> ELSE TrimmedTitle[page.titles[1]]

\* The names of the tasks of caller c's group.
NamesOf(c) == {tasks[c][i].Name : i \in 1..Len(tasks[c])}

\* C27: GetResult for a name that no task of the group has returns a nil
\* result and a nil error, on a new group, before ExecuteAll and after it,
\* and the call changes nothing of the group.
C27_UnknownNameGivesNilNil ==
    /\ [](got # Nil /\ got.name \notin NamesOf(1) => IsNil(got.result) /\ IsNil(got.error))
    /\ [][got' # got => tasks' = tasks /\ idx' = idx /\ wg' = wg]_vars

\* C27 witness: after ExecuteAll of a group whose only task stored an
\* error, GetResult for the name of a second task returned nil and nil.
C27_Witness ==
    /\ got # Nil
    /\ got.at = "executed"
    /\ Len(tasks[1]) = 1 /\ ~IsNil(tasks[1][1].Error)
    /\ got.name = TaskName(2)
    /\ IsNil(got.result) /\ IsNil(got.error)

\* C28: AnalyzeWebpage on a service built by NewServiceWithDependencies
\* does not fault on the absent cache: no call ends in a panic.
C28_ServiceWithoutCacheServes ==
    \A c \in Callers : kind[c] = "analyze" => pc[c] # "panicked"

\* A step in which Wait or Shutdown executes close(wp.taskQueue).
ClosesQueue ==
    /\ ctl.pc \in {"idle", "closing"}
    /\ ctl'.pc \in {"waiting", "panicked"}

\* C29: Wait and Shutdown both close the task queue, and the close faults
\* exactly when the queue is closed already; so a second Shutdown, or a
\* Shutdown after Wait, panics, and no pool sees two of these calls return.
C29_SecondCloseFaults ==
    /\ [][ClosesQueue => closed' /\ (ctl'.pc = "panicked" <=> closed)]_vars
    /\ [](Len(ctl.returned) <= 1)
    /\ [](ctl.calls >= 2 /\ ctl.pc \notin {"closing", "idle"} => ctl.pc = "panicked")

\* C29 witness: Wait has returned and the Shutdown after it has panicked.
C29_Witness ==
    /\ ctl.returned = <<"Wait">>
    /\ ctl.op = "Shutdown"
    /\ ctl.pc = "panicked"

\* Calls c and d asked for the same URL and both missed the cache: each
\* looked the URL up before the other had written it.
BothMissed(c, d) ==
    /\ c # d
    /\ kind[c] = "analyze" /\ kind[d] = "analyze"
    /\ req[c].URL = req[d].URL
    /\ trace[c] # <<>> /\ trace[c][1] = "Fetching"
    /\ trace[d] # <<>> /\ trace[d][1] = "Fetching"

\* C30: two overlapping calls for the same uncached URL each run their own
\* fetch, parse and extraction: the fetch collaborator is called once by
\* each of them for the URL, each call that returns returns the record it built itself (the
\* two differ in their time stamp), neither is served from the cache, and
\* every write of the cache replaces the entry of the URL, so that the cache
\* holds the record written last.
C30_OverlappingCallsBothFetch ==
    /\ [](\A c, d \in Callers : BothMissed(c, d) =>
              /\ Len(trace[c]) >= 2 /\ Len(trace[d]) >= 2 => FetchCalls(req[c].URL) >= 2
              /\ pc[c] = "Done" =>
                     /\ trace[c] = PhaseOrder
                     /\ ret[c].analysis = req[c].analysis
                     /\ Len(runs[c]) = Len(PassNames) /\ \A i \in 1..Len(runs[c]) : runs[c][i] = 1
              /\ pc[c] = "Done" /\ pc[d] = "Done" =>
                     /\ ret[c].analysis.AnalyzedAt # ret[d].analysis.AnalyzedAt
                     /\ cache[req[c].URL] \in
                            {ret[e].analysis : e \in {e \in Callers : BothMissed(e, c) /\ pc[e] = "Done"}
                                                    \cup {c}})
    /\ [][\A c \in Callers : pc[c] = "Setting" /\ pc'[c] = "Done" =>
              cache'[req[c].URL] = ret'[c].analysis]_vars

\* C30 witness: both calls for one URL have fetched and returned, and the
\* cache holds the record of one while the other returned a different one.
C30_Witness ==
    \E c, d \in Callers :
        /\ BothMissed(c, d)
        /\ pc[c] = "Done" /\ pc[d] = "Done"
        /\ FetchCalls(req[c].URL) = 2
        /\ cache[req[c].URL] = ret[d].analysis
        /\ ret[c].analysis # ret[d].analysis

====
